---- MODULE Spec2Model ----
(***************************************************************************)
(* Verification model of AmpGI's sandboxing and permission-tier core:      *)
(*   - the Permission Store (safe mode flag, permission overrides) kept in *)
(*     .ampgi-config.json, the effective-tier computation and the          *)
(*     Installation Permission Gate  (utils/permissions.js);               *)
(*   - the Process Manager (utils/process-manager.js) with the resource    *)
(*     limit timers of utils/sandbox.js;                                   *)
(*   - the policy tables and the pure functions of utils/sandbox.js:       *)
(*     createSandbox, validateFileAccess, validateNetworkAccess,           *)
(*     createSandboxedEnv and the Tier Classifier.                         *)
(***************************************************************************)
EXTENDS Integers, Sequences, FiniteSets, TLC

VARIABLES
    configFile,      \* content of .ampgi-config.json
    pending,         \* store writers between their readJson and their writeJson
    storeLast,       \* the store call that completed last, with its result
    safeModeCalled,  \* setSafeMode has been called
    processes,       \* ProcessManager.processes: serverId -> instance (0: no entry)
    inst,            \* per serverId and instance: ProcessInfo, its sandbox and child
    healthChecks,    \* ProcessManager.healthChecks: serverId -> interval
    cleanupInterval, \* ProcessManager.cleanupInterval
    initialized,     \* ProcessManager.initialized
    stops,           \* stopMCPServer calls waiting in their grace window
    host,            \* the host process: "up", "signalled" or "exited"
    lateSpawn,       \* a subprocess was spawned after killAllServers ran
    leakedSandboxes, \* the registry holds the sandbox of an instance that is gone
    last,            \* the Process Manager call made in this step, with its result
    sandboxCall      \* a call of one of the pure functions of utils/sandbox.js

storeVars == <<configFile, pending, storeLast, safeModeCalled>>
pmVars == <<processes, inst, healthChecks, cleanupInterval, initialized, stops, host,
            lateSpawn, leakedSandboxes, last, sandboxCall>>
vars == <<configFile, pending, storeLast, safeModeCalled, processes, inst, healthChecks,
          cleanupInterval, initialized, stops, host, lateSpawn,
          leakedSandboxes, last, sandboxCall>>

\* ---------------------------------------------------------------------------
\* Tiers and the static registry
\* ---------------------------------------------------------------------------

PERMISSION_TIERS == [LOW |-> "low", MEDIUM |-> "medium", HIGH |-> "high"]

Tiers == {PERMISSION_TIERS.LOW, PERMISSION_TIERS.MEDIUM, PERMISSION_TIERS.HIGH}

\* Each text field of a registry entry is kept as the set of indicator
\* keywords that occur in its lower-cased text (String.includes).
highPrivilegeIndicators ==
    {"system", "admin", "root", "sudo", "filesystem-write", "network-unrestricted"}

mediumPrivilegeIndicators ==
    {"filesystem", "file", "git", "database", "api", "web"}

MCP_SERVERS ==
    [filesystem |-> [permissions |-> {"high"}, permissionTier |-> "undefined",
                     name |-> {"system", "filesystem", "file"},
                     description |-> {"system", "file"},
                     package |-> {"system", "filesystem", "file"}],
     memory     |-> [permissions |-> {"medium"}, permissionTier |-> "undefined",
                     name |-> {}, description |-> {}, package |-> {}],
     puppeteer  |-> [permissions |-> {"medium"}, permissionTier |-> "undefined",
                     name |-> {}, description |-> {}, package |-> {}],
     everything |-> [permissions |-> {"low"}, permissionTier |-> "undefined",
                     name |-> {}, description |-> {}, package |-> {}],
     sequential |-> [permissions |-> {"low"}, permissionTier |-> "undefined",
                     name |-> {}, description |-> {}, package |-> {}],
     crawler    |-> [permissions |-> {"medium"}, permissionTier |-> "undefined",
                     name |-> {}, description |-> {"web"}, package |-> {}]]

\* getServerConfig throws for an id that is not in MCP_SERVERS.
Resolvable(serverId) == serverId \in DOMAIN MCP_SERVERS

getServerConfig(serverId) == MCP_SERVERS[serverId]

\* Variant that looks for keywords before it looks at the declared hints.
keywordsBeforeHints(serverConfig) ==
    IF \E w \in highPrivilegeIndicators :
          w \in serverConfig.name \cup serverConfig.description \cup serverConfig.package
    THEN PERMISSION_TIERS.HIGH
    ELSE IF \E w \in mediumPrivilegeIndicators :
               w \in serverConfig.name \cup serverConfig.description \cup serverConfig.package
         THEN PERMISSION_TIERS.MEDIUM
    ELSE IF "high" \in serverConfig.permissions THEN PERMISSION_TIERS.HIGH
    ELSE IF "medium" \in serverConfig.permissions THEN PERMISSION_TIERS.MEDIUM
    ELSE PERMISSION_TIERS.LOW

\* The Tier Classifier of sandbox.js.
getDefaultPermissionTier(serverConfig) ==
    IF "high" \in serverConfig.permissions THEN PERMISSION_TIERS.HIGH
    ELSE IF "medium" \in serverConfig.permissions THEN PERMISSION_TIERS.MEDIUM
    ELSE IF \E w \in highPrivilegeIndicators :
               w \in serverConfig.name \cup serverConfig.description \cup serverConfig.package
         THEN PERMISSION_TIERS.HIGH
    ELSE IF \E w \in mediumPrivilegeIndicators :
               w \in serverConfig.name \cup serverConfig.description \cup serverConfig.package
         THEN PERMISSION_TIERS.MEDIUM
    ELSE PERMISSION_TIERS.LOW

\* ---------------------------------------------------------------------------
\* The sandbox policy (utils/sandbox.js)
\* ---------------------------------------------------------------------------

\* Paths, domain names and variable names are sequences of characters.

\* String.prototype.startsWith / endsWith
StartsWith(s, prefix) ==
    Len(prefix) <= Len(s) /\ SubSeq(s, 1, Len(prefix)) = prefix

EndsWith(s, suffix) ==
    Len(suffix) <= Len(s) /\ SubSeq(s, Len(s) - Len(suffix) + 1, Len(s)) = suffix

\* The segments of a path, the empty ones included.
RECURSIVE SplitPath(_, _, _)
SplitPath(s, i, seg) ==
    IF i > Len(s) THEN <<seg>>
    ELSE IF s[i] = "/" THEN <<seg>> \o SplitPath(s, i + 1, <<>>)
    ELSE SplitPath(s, i + 1, Append(seg, s[i]))

\* Empty and "." segments are dropped, ".." removes the segment before it
\* (the root has no parent).
RECURSIVE NormalizeSegments(_, _, _)
NormalizeSegments(segs, i, acc) ==
    IF i > Len(segs) THEN acc
    ELSE IF segs[i] = <<>> \/ segs[i] = <<".">> THEN NormalizeSegments(segs, i + 1, acc)
    ELSE IF segs[i] = <<".", ".">>
         THEN NormalizeSegments(segs, i + 1,
                                IF acc = <<>> THEN acc ELSE SubSeq(acc, 1, Len(acc) - 1))
    ELSE NormalizeSegments(segs, i + 1, Append(acc, segs[i]))

RECURSIVE JoinSegments(_, _)
JoinSegments(segs, i) ==
    IF i > Len(segs) THEN <<>>
    ELSE <<"/">> \o segs[i] \o JoinSegments(segs, i + 1)

\* path.resolve(filePath) in a process whose working directory is cwd.
resolve(cwd, filePath) ==
    LET abs  == IF filePath # <<>> /\ filePath[1] = "/" THEN filePath
                ELSE cwd \o <<"/">> \o filePath
        segs == NormalizeSegments(SplitPath(abs, 1, <<>>), 1, <<>>)
    IN  IF segs = <<>> THEN <<"/">> ELSE JoinSegments(segs, 1)

\* path.join(dir, name) for a single name.
join(dir, name) == resolve(<<"/">>, dir \o <<"/">> \o name)

\* The host: os.homedir() and process.cwd().
homedir == <<"/", "h", "o", "m", "e", "/", "u">>

WorkingDirs == {<<"/", "h", "o", "m", "e", "/", "u", "/", "a", "p", "p">>, <<"/", "o", "p", "t", "/", "a", "p", "p">>}

Wildcard == <<"*">>

FILE_PERMISSIONS(cwd) ==
    [low |->
        [readablePaths |-> <<join(homedir, <<"D", "o", "c", "u", "m", "e", "n", "t", "s">>), join(homedir, <<"D", "e", "s", "k", "t", "o", "p">>), cwd>>,
         writablePaths |-> <<>>,
         blockedPaths  |-> <<<<"/", "e", "t", "c">>, <<"/", "u", "s", "r">>, <<"/", "b", "i", "n">>, <<"/", "s", "b", "i", "n">>, <<"/", "v", "a", "r">>, <<"/", "o", "p", "t">>,
                             join(homedir, <<".", "s", "s", "h">>), join(homedir, <<".", "c", "o", "n", "f", "i", "g">>)>>],
     medium |->
        [readablePaths |-> <<join(homedir, <<"D", "o", "c", "u", "m", "e", "n", "t", "s">>), join(homedir, <<"D", "e", "s", "k", "t", "o", "p">>),
                             join(homedir, <<"D", "o", "w", "n", "l", "o", "a", "d", "s">>), cwd>>,
         writablePaths |-> <<join(homedir, <<"D", "o", "c", "u", "m", "e", "n", "t", "s">>), join(homedir, <<"D", "e", "s", "k", "t", "o", "p">>),
                             join(homedir, <<"D", "o", "w", "n", "l", "o", "a", "d", "s">>), cwd>>,
         blockedPaths  |-> <<<<"/", "e", "t", "c">>, <<"/", "u", "s", "r">>, <<"/", "b", "i", "n">>, <<"/", "s", "b", "i", "n">>, <<"/", "v", "a", "r">>, <<"/", "o", "p", "t">>,
                             join(homedir, <<".", "s", "s", "h">>)>>],
     high |->
        [readablePaths |-> <<Wildcard>>,
         writablePaths |-> <<Wildcard>>,
         blockedPaths  |-> <<>>]]

\* The elements of a list.
Range(list) == {list[i] : i \in 1..Len(list)}

\* What validateFileAccess and validateNetworkAccess return; a field the
\* returned object does not have is "undefined".
Allowed == [allowed |-> TRUE, reason |-> "undefined", requiresEscalation |-> "undefined"]

Denied(reason, requiresEscalation) ==
    [allowed |-> FALSE, reason |-> reason,
     requiresEscalation |-> IF requiresEscalation THEN "true" ELSE "false"]

\* Variant that looks at the allowed directories before the blocked ones.
allowedBeforeBlocked(sandbox, filePath, operation) ==
    LET filePermissions == sandbox.filePermissions
        normalizedPath  == resolve(sandbox.cwd, filePath)
        allowedPaths    == IF operation = "write" THEN filePermissions.writablePaths
                           ELSE filePermissions.readablePaths
    IN  IF \/ Wildcard \in Range(allowedPaths)
           \/ \E allowedPath \in Range(allowedPaths) :
                 StartsWith(normalizedPath, resolve(sandbox.cwd, allowedPath))
        THEN Allowed
        ELSE IF \E blockedPath \in Range(filePermissions.blockedPaths) :
                   StartsWith(normalizedPath, resolve(sandbox.cwd, blockedPath))
        THEN Denied("blocked", sandbox.permissionTier # PERMISSION_TIERS.HIGH)
        ELSE Denied("not permitted", TRUE)

\* Variant that uses the readable list for every operation.
readListForEveryOperation(sandbox, filePath, operation) ==
    LET filePermissions == sandbox.filePermissions
        normalizedPath  == resolve(sandbox.cwd, filePath)
    IN  IF \E blockedPath \in Range(filePermissions.blockedPaths) :
              StartsWith(normalizedPath, resolve(sandbox.cwd, blockedPath))
        THEN Denied("blocked", sandbox.permissionTier # PERMISSION_TIERS.HIGH)
        ELSE IF \/ sandbox.permissionTier = PERMISSION_TIERS.HIGH
                \/ Wildcard \in Range(filePermissions.readablePaths)
                \/ \E allowedPath \in Range(filePermissions.readablePaths) :
                      StartsWith(normalizedPath, resolve(sandbox.cwd, allowedPath))
        THEN Allowed
        ELSE Denied("not permitted", TRUE)

\* Variant without the early return for the high tier and without the
\* wildcard entry.
noHighTierShortcut(sandbox, filePath, operation) ==
    LET filePermissions == sandbox.filePermissions
        normalizedPath  == resolve(sandbox.cwd, filePath)
        allowedPaths    == IF operation = "write" THEN filePermissions.writablePaths
                           ELSE filePermissions.readablePaths
    IN  IF \E blockedPath \in Range(filePermissions.blockedPaths) :
              StartsWith(normalizedPath, resolve(sandbox.cwd, blockedPath))
        THEN Denied("blocked", sandbox.permissionTier # PERMISSION_TIERS.HIGH)
        ELSE IF \E allowedPath \in Range(allowedPaths) :
                   StartsWith(normalizedPath, resolve(sandbox.cwd, allowedPath))
        THEN Allowed
        ELSE Denied("not permitted", TRUE)

validateFileAccess(sandbox, filePath, operation) ==
    LET filePermissions == sandbox.filePermissions
        permissionTier  == sandbox.permissionTier
        normalizedPath  == resolve(sandbox.cwd, filePath)
        allowedPaths    == IF operation = "write" THEN filePermissions.writablePaths
                           ELSE filePermissions.readablePaths
    IN  IF \E blockedPath \in Range(filePermissions.blockedPaths) :
              StartsWith(normalizedPath, resolve(sandbox.cwd, blockedPath))
        THEN Denied("blocked", permissionTier # PERMISSION_TIERS.HIGH)
        ELSE IF permissionTier = PERMISSION_TIERS.HIGH THEN Allowed
        ELSE IF Wildcard \in Range(allowedPaths) THEN Allowed
        ELSE IF \E allowedPath \in Range(allowedPaths) :
                   StartsWith(normalizedPath, resolve(sandbox.cwd, allowedPath))
        THEN Allowed
        ELSE Denied("not permitted", TRUE)

\* Variant of the table in which the medium tier has the low tier's CPU share.
flatCpuLimits ==
    [low    |-> [maxMemory |-> 256 * 1024 * 1024, maxCpuPercent |-> 25,
                 maxExecutionTime |-> 15000, maxConcurrentProcesses |-> 3],
     medium |-> [maxMemory |-> 512 * 1024 * 1024, maxCpuPercent |-> 25,
                 maxExecutionTime |-> 30000, maxConcurrentProcesses |-> 5],
     high   |-> [maxMemory |-> 1024 * 1024 * 1024, maxCpuPercent |-> 80,
                 maxExecutionTime |-> 60000, maxConcurrentProcesses |-> 10]]

RESOURCE_LIMITS ==
    [low    |-> [maxMemory |-> 256 * 1024 * 1024, maxCpuPercent |-> 25,
                 maxExecutionTime |-> 15000, maxConcurrentProcesses |-> 3],
     medium |-> [maxMemory |-> 512 * 1024 * 1024, maxCpuPercent |-> 50,
                 maxExecutionTime |-> 30000, maxConcurrentProcesses |-> 5],
     high   |-> [maxMemory |-> 1024 * 1024 * 1024, maxCpuPercent |-> 80,
                 maxExecutionTime |-> 60000, maxConcurrentProcesses |-> 10]]

\* Variant of the table in which the low tier has the medium tier's network.
lowTierOnline ==
    [low    |-> [allowNetwork |-> TRUE, allowedDomains |-> <<<<"a", "p", "i", ".", "g", "i", "t", "h", "u", "b", ".", "c", "o", "m">>>>,
                 allowedPorts |-> <<"80", "443", "8080">>],
     medium |-> [allowNetwork |-> TRUE, allowedDomains |-> <<<<"a", "p", "i", ".", "g", "i", "t", "h", "u", "b", ".", "c", "o", "m">>>>,
                 allowedPorts |-> <<"80", "443", "8080">>],
     high   |-> [allowNetwork |-> TRUE, allowedDomains |-> <<Wildcard>>,
                 allowedPorts |-> <<"*">>]]

NETWORK_PERMISSIONS ==
    [low    |-> [allowNetwork |-> FALSE, allowedDomains |-> <<>>, allowedPorts |-> <<>>],
     medium |-> [allowNetwork |-> TRUE,
                 allowedDomains |-> <<<<"a", "p", "i", ".", "g", "i", "t", "h", "u", "b", ".", "c", "o", "m">>, <<"a", "p", "i", ".", "o", "p", "e", "n", "a", "i", ".", "c", "o", "m">>,
                                      <<"a", "p", "i", ".", "a", "n", "t", "h", "r", "o", "p", "i", "c", ".", "c", "o", "m">>, <<"*", ".", "g", "o", "o", "g", "l", "e", "a", "p", "i", "s", ".", "c", "o", "m">>,
                                      <<"*", ".", "a", "m", "a", "z", "o", "n", "a", "w", "s", ".", "c", "o", "m">>>>,
                 allowedPorts |-> <<"80", "443", "8080">>],
     high   |-> [allowNetwork |-> TRUE, allowedDomains |-> <<Wildcard>>,
                 allowedPorts |-> <<"*">>]]

\* createSandbox on a host whose working directory is cwd; the tier is
\* medium when none is given.
createSandbox(cwd, tier) ==
    LET permissionTier == IF tier = "undefined" THEN PERMISSION_TIERS.MEDIUM ELSE tier
    IN  [permissionTier     |-> permissionTier,
         cwd                |-> cwd,
         resourceLimits     |-> RESOURCE_LIMITS[permissionTier],
         filePermissions    |-> FILE_PERMISSIONS(cwd)[permissionTier],
         networkPermissions |-> NETWORK_PERMISSIONS[permissionTier]]

\* allowedPorts.includes(x); a port number is written as its decimal numeral.
IncludesPort(allowedPorts, x) == \E i \in 1..Len(allowedPorts) : allowedPorts[i] = x

\* port is 443 when the argument is not given.
validateNetworkAccess(sandbox, domain, portArg) ==
    LET networkPermissions == sandbox.networkPermissions
        permissionTier     == sandbox.permissionTier
        port               == IF portArg = "undefined" THEN "443" ELSE portArg
        allowedDomains     == networkPermissions.allowedDomains
        allowedPorts       == networkPermissions.allowedPorts
        domainAllowed ==
            \E allowedDomain \in Range(allowedDomains) :
                IF StartsWith(allowedDomain, <<"*", ".">>)
                THEN EndsWith(domain, SubSeq(allowedDomain, 3, Len(allowedDomain)))
                ELSE domain = allowedDomain
    IN  IF ~networkPermissions.allowNetwork
        THEN Denied("network", TRUE)
        ELSE IF Wildcard \notin Range(allowedDomains) /\ ~domainAllowed
        THEN Denied("domain", permissionTier # PERMISSION_TIERS.HIGH)
        ELSE IF ~IncludesPort(allowedPorts, "*") /\ ~IncludesPort(allowedPorts, port)
        THEN Denied("port", permissionTier # PERMISSION_TIERS.HIGH)
        ELSE Allowed

\* A variable the environment does not hold reads as "undefined"; "" is the
\* empty string; both are falsy.
EnvGet(env, name) == IF name \in DOMAIN env THEN env[name] ELSE "undefined"

Truthy(value) == value \notin {"undefined", ""}

MinimalVars == {<<"N", "O", "D", "E", "_", "E", "N", "V">>, <<"P", "A", "T", "H">>, <<"H", "O", "M", "E">>, <<"U", "S", "E", "R">>, <<"L", "A", "N", "G">>, <<"T", "Z">>}

SandboxVars == {<<"A", "M", "P", "G", "I", "_", "P", "E", "R", "M", "I", "S", "S", "I", "O", "N", "_", "T", "I", "E", "R">>, <<"A", "M", "P", "G", "I", "_", "S", "A", "N", "D", "B", "O", "X", "_", "I", "D">>}

allowedVars == {<<"n", "p", "m", "_", "c", "o", "n", "f", "i", "g", "_", "r", "e", "g", "i", "s", "t", "r", "y">>, <<"H", "T", "T", "P", "_", "P", "R", "O", "X", "Y">>, <<"H", "T", "T", "P", "S", "_", "P", "R", "O", "X", "Y">>, <<"N", "O", "_", "P", "R", "O", "X", "Y">>}

\* sensitivePatterns.some(pattern => pattern.test(key))
isSensitive(key) ==
    \/ EndsWith(key, <<"_", "T", "O", "K", "E", "N">>)
    \/ EndsWith(key, <<"_", "K", "E", "Y">>)
    \/ EndsWith(key, <<"_", "S", "E", "C", "R", "E", "T">>)
    \/ EndsWith(key, <<"_", "P", "A", "S", "S", "W", "O", "R", "D">>)
    \/ StartsWith(key, <<"S", "S", "H", "_">>)
    \/ StartsWith(key, <<"A", "W", "S", "_">>)
    \/ StartsWith(key, <<"G", "I", "T", "H", "U", "B", "_">>)

\* Variant that hands the high tier the whole host environment.
copyWholeEnv(sandbox, originalEnv) ==
    LET names == IF sandbox.permissionTier = PERMISSION_TIERS.HIGH
                 THEN MinimalVars \cup SandboxVars \cup DOMAIN originalEnv
                 ELSE MinimalVars \cup SandboxVars
    IN  [name \in names |-> EnvGet(originalEnv, name)]

\* createSandboxedEnv: the returned object as a function from its keys.
createSandboxedEnv(sandbox, originalEnv) ==
    LET permissionTier == sandbox.permissionTier
        minimalEnv ==
            [name \in MinimalVars \cup SandboxVars |->
                IF name = <<"N", "O", "D", "E", "_", "E", "N", "V">>
                THEN IF Truthy(EnvGet(originalEnv, name)) THEN originalEnv[name]
                     ELSE "production"
                ELSE IF name = <<"A", "M", "P", "G", "I", "_", "P", "E", "R", "M", "I", "S", "S", "I", "O", "N", "_", "T", "I", "E", "R">> THEN permissionTier
                ELSE IF name = <<"A", "M", "P", "G", "I", "_", "S", "A", "N", "D", "B", "O", "X", "_", "I", "D">> THEN "id"
                ELSE EnvGet(originalEnv, name)]
        copied == {varName \in allowedVars : Truthy(EnvGet(originalEnv, varName))}
        mediumEnv ==
            [name \in DOMAIN minimalEnv \cup copied |->
                IF name \in copied THEN originalEnv[name] ELSE minimalEnv[name]]
        added == {key \in DOMAIN originalEnv :
                    ~isSensitive(key) /\ ~Truthy(EnvGet(mediumEnv, key))}
    IN  IF permissionTier = PERMISSION_TIERS.LOW THEN minimalEnv
        ELSE IF permissionTier # PERMISSION_TIERS.HIGH THEN mediumEnv
        ELSE [name \in DOMAIN mediumEnv \cup added |->
                IF name \in added THEN originalEnv[name] ELSE mediumEnv[name]]

\* String.prototype.toLowerCase on the letters the model's texts use.
LowerOf(c) ==
    CASE c = "A" -> "a"
      [] c = "B" -> "b"
      [] c = "C" -> "c"
      [] c = "D" -> "d"
      [] c = "E" -> "e"
      [] c = "F" -> "f"
      [] c = "G" -> "g"
      [] c = "H" -> "h"
      [] c = "I" -> "i"
      [] c = "J" -> "j"
      [] c = "K" -> "k"
      [] c = "L" -> "l"
      [] c = "M" -> "m"
      [] c = "N" -> "n"
      [] c = "O" -> "o"
      [] c = "P" -> "p"
      [] c = "Q" -> "q"
      [] c = "R" -> "r"
      [] c = "S" -> "s"
      [] c = "T" -> "t"
      [] c = "U" -> "u"
      [] c = "V" -> "v"
      [] c = "W" -> "w"
      [] c = "X" -> "x"
      [] c = "Y" -> "y"
      [] c = "Z" -> "z"
      [] OTHER -> c

toLowerCase(text) == [i \in 1..Len(text) |-> LowerOf(text[i])]

\* String.prototype.includes
Includes(text, part) ==
    \E i \in 0..(Len(text) - Len(part)) : SubSeq(text, i + 1, i + Len(part)) = part

\* The characters of an indicator keyword.
Characters(indicator) ==
    IF indicator = "system"
    THEN <<"s", "y", "s", "t", "e", "m">>
    ELSE IF indicator = "admin"
    THEN <<"a", "d", "m", "i", "n">>
    ELSE IF indicator = "root"
    THEN <<"r", "o", "o", "t">>
    ELSE IF indicator = "sudo"
    THEN <<"s", "u", "d", "o">>
    ELSE IF indicator = "filesystem-write"
    THEN <<"f", "i", "l", "e", "s", "y", "s", "t", "e", "m", "-", "w", "r", "i", "t", "e">>
    ELSE IF indicator = "network-unrestricted"
    THEN <<"n", "e", "t", "w", "o", "r", "k", "-", "u", "n", "r", "e", "s", "t", "r", "i", "c", "t", "e", "d">>
    ELSE IF indicator = "filesystem"
    THEN <<"f", "i", "l", "e", "s", "y", "s", "t", "e", "m">>
    ELSE IF indicator = "file"
    THEN <<"f", "i", "l", "e">>
    ELSE IF indicator = "git"
    THEN <<"g", "i", "t">>
    ELSE IF indicator = "database"
    THEN <<"d", "a", "t", "a", "b", "a", "s", "e">>
    ELSE IF indicator = "api"
    THEN <<"a", "p", "i">>
    ELSE IF indicator = "web"
    THEN <<"w", "e", "b">>
    ELSE <<>>

\* serverConfig.<field>?.toLowerCase() || '' and the indicator keywords that
\* text includes; a field is a record [defined, text].
IndicatorsIn(field) ==
    LET text == IF field.defined THEN toLowerCase(field.text) ELSE <<>>
    IN  {indicator \in highPrivilegeIndicators \cup mediumPrivilegeIndicators :
            Includes(text, Characters(indicator))}

\* The Tier Classifier applied to plugin metadata as it is written:
\* permissions is a record [defined, list].
classify(metadata) ==
    getDefaultPermissionTier(
        [permissions    |-> IF metadata.permissions.defined
                            THEN metadata.permissions.list ELSE {},
         permissionTier |-> "undefined",
         name           |-> IndicatorsIn(metadata.name),
         description    |-> IndicatorsIn(metadata.description),
         package        |-> IndicatorsIn(metadata.package)])

\* ---------------------------------------------------------------------------
\* Permission Store
\* ---------------------------------------------------------------------------

\* Plugin ids the store operations are called with; "unlisted" is not in the
\* registry.
StoreIds == {"filesystem", "memory", "unlisted"}

\* Longest batch handed to validateInstallationPermissions.
MaxBatch == 2

NoOverrides == [id \in StoreIds |-> "none"]

Absent  == [kind |-> "absent",  safeMode |-> "unset", permissionOverrides |-> NoOverrides]
Corrupt == [kind |-> "corrupt", safeMode |-> "unset", permissionOverrides |-> NoOverrides]

\* What readJson yields for a writer: {} when the file does not exist.
EmptyDoc == [kind |-> "doc", safeMode |-> "unset", permissionOverrides |-> NoOverrides]

\* Variant in which a writer starts from {} whatever the file holds.
readNothing(file) == EmptyDoc

ReadForUpdate(file) == IF file.kind = "absent" THEN EmptyDoc ELSE file

isSafeModeEnabled(file) ==
    IF file.kind = "doc" THEN file.safeMode = "true" ELSE TRUE

getPermissionOverrides(file) ==
    IF file.kind = "doc" THEN file.permissionOverrides ELSE NoOverrides

\* blocked / not blocked; only evaluated for a resolvable id when safe mode is
\* on (getServerConfig throws otherwise).
RequiresHighPrivileges(serverConfig) ==
    \/ "high" \in serverConfig.permissions
    \/ serverConfig.permissionTier = PERMISSION_TIERS.HIGH

\* "threw" when getServerConfig throws inside the check.
isServerBlockedByQuarantinemode(file, serverId) ==
    IF ~isSafeModeEnabled(file) THEN "free"
    ELSE IF ~Resolvable(serverId) THEN "threw"
    ELSE IF RequiresHighPrivileges(getServerConfig(serverId)) THEN "blocked"
    ELSE "free"

\* Variant in which the safe-mode check is made before the override lookup.
safeModeBeforeOverride(file, serverId, defaultTier) ==
    LET override == getPermissionOverrides(file)[serverId]
        safeModeCheck == isServerBlockedByQuarantinemode(file, serverId)
    IN  IF safeModeCheck = "threw" THEN "threw"
        ELSE IF safeModeCheck = "blocked" THEN PERMISSION_TIERS.LOW
        ELSE IF override # "none" THEN override
        ELSE defaultTier

getEffectivePermissionTier(file, serverId, defaultTier) ==
    LET override == getPermissionOverrides(file)[serverId]
        safeModeCheck == isServerBlockedByQuarantinemode(file, serverId)
    IN  IF override # "none" THEN override
        ELSE IF safeModeCheck = "threw" THEN "threw"
        ELSE IF safeModeCheck = "blocked" THEN PERMISSION_TIERS.LOW
        ELSE defaultTier

\* One entry of the gate's result list.
GateResult(file, serverId) ==
    IF isServerBlockedByQuarantinemode(file, serverId) = "blocked"
    THEN [serverId |-> serverId, allowed |-> FALSE, requiresEscalation |-> TRUE,
          reason |-> "High privilege servers are blocked in safe mode"]
    ELSE [serverId |-> serverId, allowed |-> TRUE, requiresEscalation |-> FALSE,
          reason |-> "none"]

validateInstallationPermissions(file, serverIds) ==
    IF \E i \in 1..Len(serverIds) : ~Resolvable(serverIds[i])
    THEN <<>>
    ELSE [i \in 1..Len(serverIds) |-> GateResult(file, serverIds[i])]

Batches == UNION {[1..n -> StoreIds] : n \in 0..MaxBatch}

NoCall == [op |-> "none", id |-> "none", tier |-> "none", batch |-> <<>>,
           res |-> "none", results |-> <<>>]

Call(op, id, tier, res) ==
    [op |-> op, id |-> id, tier |-> tier, batch |-> <<>>, res |-> res, results |-> <<>>]

\* --- writers: read step -----------------------------------------------------

BeginWrite(op, id, tier) ==
    /\ safeModeCalled' = (safeModeCalled \/ op = "setSafeMode")
    /\ IF configFile.kind = "corrupt"
       THEN /\ storeLast' = Call(op, id, tier, "threw")
            /\ UNCHANGED <<configFile, pending>>
       ELSE /\ pending' = pending \cup
                  {[op |-> op, id |-> id, tier |-> tier, config |-> ReadForUpdate(configFile)]}
            /\ UNCHANGED <<configFile, storeLast>>

setSafeModeBegin(enabled) ==
    BeginWrite("setSafeMode", "none", enabled)

setPermissionOverrideBegin(serverId, permissionTier) ==
    BeginWrite("setPermissionOverride", serverId, permissionTier)

\* An escalation that stores the override without looking at the environment
\* or at the answer.
escalateWithoutAsking(serverId, requestedTier, interactive, answer) ==
    BeginWrite("requestPermissionEscalation", serverId, requestedTier)

\* requestPermissionEscalation up to the point where it either returns or
\* calls setPermissionOverride.
requestPermissionEscalation(serverId, requestedTier, interactive, answer) ==
    IF ~interactive
    THEN /\ storeLast' = Call("requestPermissionEscalation", serverId, requestedTier, "denied")
         /\ UNCHANGED <<configFile, pending, safeModeCalled>>
    ELSE IF ~Resolvable(serverId)
    THEN /\ storeLast' = Call("requestPermissionEscalation", serverId, requestedTier, "threw")
         /\ UNCHANGED <<configFile, pending, safeModeCalled>>
    ELSE IF answer # "yes"
    THEN /\ storeLast' = Call("requestPermissionEscalation", serverId, requestedTier, "denied")
         /\ UNCHANGED <<configFile, pending, safeModeCalled>>
    ELSE BeginWrite("requestPermissionEscalation", serverId, requestedTier)

\* --- writers: write step ----------------------------------------------------

\* A write that removes an override that already has the tier being set.
WrittenToggles(w) ==
    IF w.op = "setSafeMode"
    THEN [w.config EXCEPT !.safeMode = w.tier]
    ELSE [w.config EXCEPT !.permissionOverrides[w.id] =
                            IF @ = w.tier THEN "none" ELSE w.tier]

\* A write that starts from an empty document instead of the one it read.
WrittenFromScratch(w) ==
    IF w.op = "setSafeMode"
    THEN [EmptyDoc EXCEPT !.safeMode = w.tier]
    ELSE [EmptyDoc EXCEPT !.permissionOverrides[w.id] = w.tier]

Written(w) ==
    IF w.op = "setSafeMode"
    THEN [w.config EXCEPT !.safeMode = w.tier]
    ELSE [w.config EXCEPT !.permissionOverrides[w.id] = w.tier]

writeJson ==
    \E w \in pending :
        /\ configFile' = Written(w)
        /\ pending' = pending \ {w}
        /\ UNCHANGED safeModeCalled
        /\ storeLast' = Call(w.op, w.id, w.tier,
                             IF w.op = "requestPermissionEscalation" THEN "granted" ELSE "ok")

\* --- readers ----------------------------------------------------------------

isSafeModeEnabledCall ==
    /\ storeLast' = Call("isSafeModeEnabled", "none", "none",
                         IF isSafeModeEnabled(configFile) THEN "true" ELSE "false")
    /\ UNCHANGED <<configFile, pending, safeModeCalled>>

getEffectivePermissionTierCall(serverId, defaultTier) ==
    /\ storeLast' = Call("getEffectivePermissionTier", serverId, defaultTier,
                         getEffectivePermissionTier(configFile, serverId, defaultTier))
    /\ UNCHANGED <<configFile, pending, safeModeCalled>>

validateInstallationPermissionsCall(serverIds) ==
    /\ storeLast' = [op |-> "validateInstallationPermissions", id |-> "none",
                     tier |-> "none", batch |-> serverIds,
                     res |-> IF \E i \in 1..Len(serverIds) : ~Resolvable(serverIds[i])
                             THEN "threw" ELSE "ok",
                     results |-> validateInstallationPermissions(configFile, serverIds)]
    /\ UNCHANGED <<configFile, pending, safeModeCalled>>


\* ---------------------------------------------------------------------------
\* Process Manager
\* ---------------------------------------------------------------------------

\* this.maxConcurrentProcesses
maxConcurrentProcesses == 10

\* processInfo.restartCount < 3 in the exit handler
maxAutoRestarts == 3

\* Instances (ProcessInfo + sandbox + child) of one serverId that exist at the
\* same time.
MaxInstances == 2

\* Subprocesses the auto-restart timer may spawn for one serverId.
MaxAutoSpawns == 3

\* restartMCPServer calls counted on one ProcessInfo.
MaxRestartCount == 3

\* stopMCPServer calls inside their grace window at the same time.
MaxStops == 2
MaxEnvVars == 3
MaxSandboxes == 3

\* Plugins of the lifecycle specification, and of the capacity specification.
NumPlugins == 1
NumCapPlugins == 11

\* Plugins of the capacity specification that are running from the start.
NumBackground == 9

PluginNames == <<"filesystem", "memory", "puppeteer", "everything", "sequential",
                 "crawler", "filesystem2", "memory2", "puppeteer2", "everything2",
                 "sequential2", "crawler2", "filesystem3">>

\* serverConfig.permissions of the configuration a plugin is started with.
ConfigPermissions(serverId) ==
    IF serverId \in {"filesystem", "filesystem2", "filesystem3"} THEN {"high"}
    ELSE IF serverId \in {"everything", "everything2", "sequential", "sequential2"}
         THEN {"low"}
    ELSE {"medium"}

\* ProcessManager.getDefaultPermissionTier (the manager's own fallback).
ManagerDefaultPermissionTier(permissions) ==
    IF "high" \in permissions THEN PERMISSION_TIERS.HIGH
    ELSE IF "medium" \in permissions THEN PERMISSION_TIERS.MEDIUM
    ELSE PERMISSION_TIERS.LOW

\* An unused instance slot.
NoInstance ==
    [used |-> FALSE, status |-> "none", restartCount |-> 0, lastHealthCheck |-> "null",
     tier |-> "none", inRegistry |-> FALSE,
     alive |-> FALSE, killed |-> FALSE, exitCode |-> "null",
     sigterm |-> FALSE, sigkill |-> FALSE,
     limitTimer |-> "none", restartTimer |-> "none",
     autoRestarts |-> 0, stopReturned |-> FALSE, spawnError |-> "none"]

\* The manager's state as one value, with the return value of the call that
\* produced it (ret) and whether the step left the model's bounds (overflow).
PM ==
    [processes |-> processes, inst |-> inst, healthChecks |-> healthChecks,
     cleanupInterval |-> cleanupInterval, initialized |-> initialized,
     stops |-> stops, host |-> host,
     lateSpawn |-> lateSpawn, leakedSandboxes |-> leakedSandboxes, ret |-> "none", overflow |-> FALSE]

Ids(M) == DOMAIN M.processes
Slots(M, id) == DOMAIN M.inst[id]
Child(M, id, k) == M.inst[id][k]

\* An instance nothing refers to any more: its child exited, it is in neither
\* map, no stop waits on it, its restart timer is not armed and no 'error'
\* event of its child is still to come.
Garbage(M, id, k) ==
    LET c == Child(M, id, k)
    IN  /\ c.used
        /\ ~c.alive
        /\ M.processes[id] # k
        /\ c.restartTimer # "armed"
        /\ c.spawnError # "pending"
        /\ ~\E s \in M.stops : s.id = id /\ s.k = k

\* An instance the processes map no longer holds: nothing reads its status,
\* lastHealthCheck or sandbox tier again, and once its child has exited nothing
\* reads its restartCount, exit code or signals either (kill() on an exited
\* child does nothing). Those fields are set to fixed values.
Unreachable(M, id, k) ==
    LET c == Child(M, id, k)
        c1 == [c EXCEPT !.status = "none", !.lastHealthCheck = "null",
                        !.tier = "none", !.autoRestarts = 0]
    IN  IF c.alive THEN c1
        ELSE [c1 EXCEPT !.restartCount = 0, !.exitCode = "null", !.killed = FALSE,
                        !.sigterm = FALSE, !.sigkill = FALSE, !.limitTimer = "none"]

\* A sandbox left in the registry by an instance that is dropped is remembered
\* in leakedSandboxes.
Collect(M) ==
    [M EXCEPT
        !.inst = [id \in Ids(M) |-> [k \in Slots(M, id) |->
                    IF Garbage(M, id, k) THEN NoInstance
                    ELSE IF M.inst[id][k].used /\ M.processes[id] # k
                    THEN Unreachable(M, id, k)
                    ELSE M.inst[id][k]]],
        !.leakedSandboxes = @ \/ \E id \in Ids(M) : \E k \in Slots(M, id) :
                                    Garbage(M, id, k) /\ Child(M, id, k).inRegistry]

FreeSlot(M, id) ==
    IF \E k \in Slots(M, id) : ~Child(M, id, k).used
    THEN CHOOSE k \in Slots(M, id) :
            /\ ~Child(M, id, k).used
            /\ \A j \in Slots(M, id) : ~Child(M, id, j).used => k <= j
    ELSE 0

\* initialize(): the cleanup interval is started on first use only.
initialize(M) ==
    IF M.initialized THEN M
    ELSE [M EXCEPT !.initialized = TRUE, !.cleanupInterval = "armed"]

RunningCount(M) ==
    Cardinality({id \in Ids(M) :
        M.processes[id] # 0 /\ Child(M, id, M.processes[id]).status = "running"})

\* ChildProcess.kill(signal): the signal is delivered, and killed is set, only
\* while the subprocess has not exited.
childKill(M, id, k, signal) ==
    IF ~Child(M, id, k).alive THEN M
    ELSE IF signal = "SIGTERM"
         THEN [M EXCEPT !.inst[id][k].sigterm = TRUE, !.inst[id][k].killed = TRUE]
         ELSE [M EXCEPT !.inst[id][k].sigkill = TRUE, !.inst[id][k].killed = TRUE]

\* Variant that never finds the plugin running.
NeverRunning(M, id) == FALSE

\* this.processes.has(serverId) && existing.status === 'running'
IsRunning(M, id) ==
    M.processes[id] # 0 /\ Child(M, id, M.processes[id]).status = "running"

\* Variant that admits one plugin more than the cap.
AboveCapacity(M) == RunningCount(M) > maxConcurrentProcesses

\* runningCount >= this.maxConcurrentProcesses
AtCapacity(M) == RunningCount(M) >= maxConcurrentProcesses

\* startMCPServer; spawn is what child_process.spawn does: "ok", "throw" (it
\* throws) or "error" (it returns a ChildProcess that has no subprocess and
\* emits 'error' on a later tick, as for a command that does not exist);
\* autos the number of automatic restarts that led to this start since the
\* caller started the plugin.
startMCPServer(M0, id, permissionTier, spawn, autos) ==
    LET M == initialize(M0)
        tier == IF permissionTier \in Tiers THEN permissionTier
                ELSE ManagerDefaultPermissionTier(ConfigPermissions(id))
        k == FreeSlot(M, id)
    IN  IF IsRunning(M, id)
        THEN [M EXCEPT !.ret = "already running"]
        ELSE IF AtCapacity(M)
        THEN [M EXCEPT !.ret = "maximum reached"]
        ELSE IF spawn = "throw"
        THEN [M EXCEPT !.processes[id] = 0, !.ret = "failed to start"]
        ELSE IF k = 0 \/ autos > MaxAutoSpawns
        THEN [M EXCEPT !.overflow = TRUE]
        ELSE [M EXCEPT
                !.processes[id] = k,
                !.inst[id][k] = [NoInstance EXCEPT
                    !.used = TRUE, !.status = "running", !.tier = tier,
                    !.inRegistry = TRUE, !.alive = (spawn # "error"),
                    !.spawnError = IF spawn = "error" THEN "pending" ELSE "none",
                    !.limitTimer = "armed", !.autoRestarts = autos],
                !.healthChecks[id] = "armed",
                !.lateSpawn = @ \/ (M.host # "up"),
                !.ret = "ok"]

\* The part of stopMCPServer after the grace window: resource controls are
\* released and the tracking entries removed.
stopFinish(M, id, k) ==
    [M EXCEPT
        !.inst[id][k].limitTimer = IF @ = "armed" THEN "cleared" ELSE @,
        !.inst[id][k].inRegistry = FALSE,
        !.inst[id][k].stopReturned = TRUE,
        !.processes[id] = 0,
        !.ret = "success"]

\* Variant that restarts the plugin without passing the old sandbox's tier.
restartWithDefaultTier(M, id, k, then, tier, spawn) ==
    startMCPServer(M, id, "undefined", spawn,
                   Child(M, id, k).autoRestarts + (IF then = "auto" THEN 1 ELSE 0))

\* What restartMCPServer does when its stop of instance k has returned.
restartStart(M, id, k, then, tier, spawn) ==
    startMCPServer(M, id, tier, spawn,
                   Child(M, id, k).autoRestarts + (IF then = "auto" THEN 1 ELSE 0))

\* stopMCPServer up to its await (or to its end when it does not wait).
\* then: what the caller does once the stop has returned ("none" or a restart
\* started by a caller or by the auto-restart timer); tier: the tier a restart starts the plugin with.
stopMCPServer(M, id, reason, then, tier, spawn) ==
    LET k == M.processes[id]
        M1 == [M EXCEPT !.inst[id][k].status = "stopping", !.healthChecks[id] = "none"]
        M2 == stopFinish(M1, id, k)
    IN  IF k = 0 THEN [M EXCEPT !.ret = "Server not found"]
        ELSE IF ~Child(M, id, k).killed
        THEN IF Cardinality(M.stops) >= MaxStops THEN [M EXCEPT !.overflow = TRUE]
             ELSE [childKill(M1, id, k, "SIGTERM") EXCEPT
                    !.stops = @ \cup {[id |-> id, k |-> k, then |-> then, tier |-> tier]},
                    !.ret = "waiting"]
        ELSE IF then = "none" THEN M2
        ELSE restartStart(M2, id, k, then, tier, spawn)

restartMCPServer(M, id, then, spawn) ==
    LET k == M.processes[id]
        tier == IF Child(M, id, k).inRegistry THEN Child(M, id, k).tier ELSE "undefined"
    IN  IF k = 0 THEN [M EXCEPT !.ret = "not found"]
        ELSE IF Child(M, id, k).restartCount >= MaxRestartCount
        THEN [M EXCEPT !.overflow = TRUE]
        ELSE stopMCPServer([M EXCEPT !.inst[id][k].restartCount = @ + 1],
                           id, "restart", then, tier, spawn)

killServer(M, id) ==
    LET k == M.processes[id]
    IN  IF k = 0 THEN [M EXCEPT !.ret = "false"]
        ELSE [childKill(M, id, k, "SIGKILL") EXCEPT
                !.inst[id][k].status = "killed", !.ret = "true"]

\* The 'exit' event of a child: the listeners run in the order they were
\* added: applyResourceLimits (clearTimeout), setupProcessHandlers (status,
\* auto-restart timer), then the stopMCPServer calls waiting on this child;
\* the restart (if any) that awaited one of those stops then starts the
\* plugin again. code is "zero", "nonzero" or "signal" (exit code null).
childExit(M, id, k, code, first, spawn) ==
    LET c == Child(M, id, k)
        waiting == {s \in M.stops : s.id = id /\ s.k = k}
        M1 == [M EXCEPT
                !.inst[id][k].alive = FALSE,
                !.inst[id][k].exitCode = IF code = "signal" THEN "null" ELSE code,
                !.inst[id][k].limitTimer = IF @ = "armed" THEN "cleared" ELSE @,
                !.inst[id][k].status = "stopped",
                !.inst[id][k].restartTimer =
                    IF code # "zero" /\ c.restartCount < maxAutoRestarts
                    THEN "armed" ELSE @]
        M2 == stopFinish([M1 EXCEPT !.stops = @ \ waiting], id, k)
    IN  IF waiting = {} THEN M1
        ELSE IF first.then = "none" THEN M2
        ELSE restartStart(M2, id, k, first.then, first.tier, spawn)

\* The 'error' event of a child that could not be spawned: exitCode holds the
\* negative errno and no 'exit' event follows.
childError(M, id, k) ==
    [M EXCEPT
        !.inst[id][k].status = "error",
        !.inst[id][k].exitCode = "negative",
        !.inst[id][k].spawnError = "emitted"]

\* The restarts waiting on the stops of one child; the one whose stop was
\* called first starts the plugin, the others find it running.
FirstOf(waiting) ==
    IF \E s \in waiting : s.then # "none"
    THEN {s \in waiting : s.then # "none"}
    ELSE IF waiting = {} THEN {[then |-> "none", tier |-> "none"]}
    ELSE waiting

\* The 5 s timer of a waiting stopMCPServer.
stopGraceTimeout(M, s, spawn) ==
    LET M1 == IF ~Child(M, s.id, s.k).killed
              THEN childKill(M, s.id, s.k, "SIGKILL") ELSE M
        M2 == stopFinish([M1 EXCEPT !.stops = @ \ {s}], s.id, s.k)
    IN  IF s.then = "none" THEN M2
        ELSE restartStart(M2, s.id, s.k, s.then, s.tier, spawn)

\* applyResourceLimits: the execution-time timer and its 5 s follow-up.
\* limitTimer: "armed", "followup" (SIGTERM sent, follow-up pending), "done"
\* (follow-up elapsed), "skipped" (the timer found killed set), "cleared".
limitTimeout(M, id, k) ==
    IF ~Child(M, id, k).killed
    THEN [childKill(M, id, k, "SIGTERM") EXCEPT !.inst[id][k].limitTimer = "followup"]
    ELSE [M EXCEPT !.inst[id][k].limitTimer = "skipped"]

limitFollowup(M, id, k) ==
    [(IF ~Child(M, id, k).killed THEN childKill(M, id, k, "SIGKILL") ELSE M)
        EXCEPT !.inst[id][k].limitTimer = "done"]

\* The auto-restart timer set by the exit handler; a failed restart is logged.
restartTimeout(M, id, k, spawn) ==
    restartMCPServer([M EXCEPT !.inst[id][k].restartTimer = "none"], id, "auto", spawn)

\* A health check that stops the plugin it finds dead.
stopWhenUnhealthy(M, id) ==
    LET k == M.processes[id]
    IN  IF k = 0 THEN M
        ELSE IF Child(M, id, k).killed \/ Child(M, id, k).exitCode # "null"
        THEN stopMCPServer(M, id, "unhealthy", "none", "none", "ok")
        ELSE [M EXCEPT !.inst[id][k].lastHealthCheck = "set", !.ret = "healthCheck"]

performHealthCheck(M, id) ==
    LET k == M.processes[id]
    IN  IF k = 0 THEN M
        ELSE IF Child(M, id, k).killed \/ Child(M, id, k).exitCode # "null"
        THEN [M EXCEPT !.ret = "serverUnhealthy"]
        ELSE [M EXCEPT !.inst[id][k].lastHealthCheck = "set", !.ret = "healthCheck"]

DeadProcess(M, id) ==
    /\ M.processes[id] # 0
    /\ \/ Child(M, id, M.processes[id]).killed
       \/ Child(M, id, M.processes[id]).exitCode # "null"

RECURSIVE cleanupLoop(_, _)
cleanupLoop(M, todo) ==
    IF todo = {} THEN M
    ELSE LET id == CHOOSE x \in todo : TRUE
         IN  cleanupLoop(IF DeadProcess(M, id)
                         THEN stopMCPServer(M, id, "cleanup", "none", "none", "ok")
                         ELSE M,
                         todo \ {id})

RECURSIVE killLoop(_, _)
killLoop(M, todo) ==
    IF todo = {} THEN M
    ELSE LET id == CHOOSE x \in todo : TRUE
         IN  killLoop(killServer(M, id), todo \ {id})

\* killAllServers, on the host's 'exit' event or on SIGINT / SIGTERM (whose
\* listener replaces the default action, so the host keeps running).
killAllServers(M, event) ==
    [killLoop(M, {id \in Ids(M) : M.processes[id] # 0}) EXCEPT
        !.cleanupInterval = IF @ = "armed" THEN "cleared" ELSE @,
        !.healthChecks = [id \in Ids(M) |-> IF @[id] = "armed" THEN "cleared" ELSE @[id]],
        !.host = IF event = "exit" THEN "exited" ELSE "signalled"]

\* --- actions ----------------------------------------------------------------

Commit(M0) ==
    \E M \in {Collect(M0)} :
        /\ ~M.overflow
        /\ processes' = M.processes
        /\ inst' = M.inst
        /\ healthChecks' = M.healthChecks
        /\ cleanupInterval' = M.cleanupInterval
        /\ initialized' = M.initialized
        /\ stops' = M.stops
        /\ host' = M.host
        /\ lateSpawn' = M.lateSpawn
        /\ leakedSandboxes' = M.leakedSandboxes
        /\ sandboxCall' = sandboxCall

\* No sandbox function has been called.
NoSandboxCall == [fn |-> "none"]

\* Arguments the sandbox functions are called with.
FilePaths ==
    {<<"/", "e", "t", "c", "/", "p", "a", "s", "s", "w", "d">>,
     <<"/", "e", "t", "c">>,
     <<"/", "e", "t", "c", "e", "t", "e", "r", "a", "/", "x">>,
     <<"/", "/", "e", "t", "c", "/", "/", "p", "a", "s", "s", "w", "d">>,
     <<"/", "h", "o", "m", "e", "/", "u", "/", "D", "o", "c", "u", "m", "e", "n", "t", "s", "/", "a", ".", "t", "x", "t">>,
     <<"/", "h", "o", "m", "e", "/", "u", "/", "D", "o", "c", "u", "m", "e", "n", "t", "s">>,
     <<"/", "h", "o", "m", "e", "/", "u", "/", "D", "o", "c", "u", "m", "e", "n", "t", "s", "-", "o", "l", "d", "/", "k">>,
     <<"/", "h", "o", "m", "e", "/", "u", "/", "D", "o", "c", "u", "m", "e", "n", "t", "s", "/", ".", ".", "/", ".", "s", "s", "h", "/", "i", "d">>,
     <<"/", "h", "o", "m", "e", "/", "u", "/", ".", "s", "s", "h", "/", "i", "d">>,
     <<"/", "h", "o", "m", "e", "/", "u", "/", ".", "c", "o", "n", "f", "i", "g", "/", "x">>,
     <<"/", "h", "o", "m", "e", "/", "u", "/", "D", "o", "w", "n", "l", "o", "a", "d", "s", "/", "f">>,
     <<"/", "h", "o", "m", "e", "/", "u", "/", "D", "e", "s", "k", "t", "o", "p", "/", ".", "/", "a">>,
     <<"/", "h", "o", "m", "e", "/", "u", "/", "a", "p", "p", "/", "s", "r", "c">>,
     <<"/", "h", "o", "m", "e", "/", "u", "/", "a", "p", "p", "s", "/", "x">>,
     <<"/", "h", "o", "m", "e", "/", "u", "/", "a", "p", "p", "/", ".", ".", "/", ".", ".", "/", ".", ".", "/", "e", "t", "c", "/", "h", "o", "s", "t", "s">>,
     <<"/", "o", "p", "t", "/", "a", "p", "p", "/", "d", "a", "t", "a">>,
     <<"/", "o", "p", "t", "/", "a", "p", "p">>,
     <<"n", "o", "t", "e", "s", ".", "t", "x", "t">>,
     <<".", ".", "/", "s", "e", "c", "r", "e", "t">>,
     <<"/", "t", "m", "p", "/", "x">>,
     <<"/">>}

Operations == {"read", "write", "delete"}

Domains ==
    {<<"a", "p", "i", ".", "g", "i", "t", "h", "u", "b", ".", "c", "o", "m">>,
     <<"a", "p", "i", ".", "o", "p", "e", "n", "a", "i", ".", "c", "o", "m">>,
     <<"e", "v", "i", "l", ".", "c", "o", "m">>,
     <<"s", "t", "o", "r", "a", "g", "e", ".", "g", "o", "o", "g", "l", "e", "a", "p", "i", "s", ".", "c", "o", "m">>,
     <<"e", "v", "i", "l", "g", "o", "o", "g", "l", "e", "a", "p", "i", "s", ".", "c", "o", "m">>,
     <<"g", "o", "o", "g", "l", "e", "a", "p", "i", "s", ".", "c", "o", "m">>,
     <<"s", "3", ".", "a", "m", "a", "z", "o", "n", "a", "w", "s", ".", "c", "o", "m">>,
     <<"a", "p", "i", ".", "g", "i", "t", "h", "u", "b", ".", "c", "o", "m", ".", "e", "v", "i", "l", ".", "c", "o", "m">>,
     <<"A", "P", "I", ".", "G", "I", "T", "H", "U", "B", ".", "C", "O", "M">>}

Ports == {"80", "443", "8080", "22", "8443", "undefined"}

HostVars ==
    {<<"P", "A", "T", "H">>,
     <<"H", "O", "M", "E">>,
     <<"N", "O", "D", "E", "_", "E", "N", "V">>,
     <<"H", "T", "T", "P", "_", "P", "R", "O", "X", "Y">>,
     <<"E", "D", "I", "T", "O", "R">>,
     <<"A", "P", "I", "_", "T", "O", "K", "E", "N">>,
     <<"M", "Y", "_", "K", "E", "Y">>,
     <<"A", "P", "P", "_", "S", "E", "C", "R", "E", "T">>,
     <<"D", "B", "_", "P", "A", "S", "S", "W", "O", "R", "D">>,
     <<"S", "S", "H", "_", "A", "U", "T", "H", "_", "S", "O", "C", "K">>,
     <<"A", "W", "S", "_", "R", "E", "G", "I", "O", "N">>,
     <<"G", "I", "T", "H", "U", "B", "_", "A", "C", "T", "O", "R">>,
     <<"T", "O", "K", "E", "N">>,
     <<"a", "p", "i", "_", "t", "o", "k", "e", "n">>}

\* Host environments of at most MaxEnvVars variables; HTTP_PROXY may be set
\* to the empty string.
HostEnvs ==
    {[name \in D |-> IF name \in E THEN "" ELSE "v"] :
        <<D, E>> \in {de \in (SUBSET HostVars) \X (SUBSET {<<"H", "T", "T", "P", "_", "P", "R", "O", "X", "Y">>}) :
                        Cardinality(de[1]) <= MaxEnvVars /\ de[2] \subseteq de[1]}}

Texts ==
    {<<"F", "i", "l", "e", "S", "y", "s", "t", "e", "m", " ", "S", "e", "r", "v", "e", "r">>,
     <<"G", "i", "t", " ", "t", "o", "o", "l", "s">>,
     <<"S", "U", "D", "O", " ", "h", "e", "l", "p", "e", "r">>,
     <<"n", "o", "t", "e", "s">>,
     <<"W", "e", "b", " ", "A", "P", "I">>,
     <<"m", "e", "m", "o", "r", "y">>}

TextFields ==
    {[defined |-> FALSE, text |-> <<>>], [defined |-> TRUE, text |-> <<>>]}
    \cup {[defined |-> TRUE, text |-> t] : t \in Texts}

PermissionLists ==
    {[defined |-> FALSE, list |-> {}]}
    \cup {[defined |-> TRUE, list |-> l] : l \in SUBSET {"high", "medium", "low"}}

Metadata ==
    [permissions : PermissionLists, name : TextFields, description : TextFields,
     package : {f \in TextFields : f.text \in {<<>>, <<"F", "i", "l", "e", "S", "y", "s", "t", "e", "m", " ", "S", "e", "r", "v", "e", "r">>, <<"n", "o", "t", "e", "s">>}}]

RECURSIVE TierLists(_)
TierLists(n) ==
    IF n = 0 THEN {<<>>}
    ELSE TierLists(n - 1)
         \cup {Append(l, t) : l \in {x \in TierLists(n - 1) : Len(x) = n - 1},
                              t \in Tiers \cup {"undefined"}}

NoReturn == [op |-> "none", id |-> "none", res |-> "none"]

Event(M) == Commit(M) /\ last' = NoReturn

Returned(op, id, M) ==
    \E R \in {M} :
        /\ Commit(R)
        /\ last' = [op |-> op, id |-> id, res |-> R.ret]

SpawnOutcomes == {"ok", "throw"}

Start(id, permissionTier, spawn) ==
    /\ host = "up"
    /\ Returned("start", id, startMCPServer(PM, id, permissionTier, spawn, 0))
    /\ UNCHANGED storeVars

Stop(id) ==
    /\ host = "up"
    /\ Returned("stop", id, stopMCPServer(PM, id, "manual", "none", "none", "ok"))
    /\ UNCHANGED storeVars

Restart(id, spawn) ==
    /\ host = "up"
    /\ Returned("restart", id, restartMCPServer(PM, id, "caller", spawn))
    /\ UNCHANGED storeVars

Kill(id) ==
    /\ host = "up"
    /\ Returned("kill", id, killServer(PM, id))
    /\ UNCHANGED storeVars

ExitCodes(c) ==
    IF c.sigkill THEN {"signal"}
    ELSE IF c.sigterm THEN {"zero", "nonzero", "signal"}
    ELSE {"zero", "nonzero"}

ChildExit(id, k, code, spawn) ==
    /\ host # "exited"
    /\ inst[id][k].alive
    /\ code \in ExitCodes(inst[id][k])
    /\ \E first \in FirstOf({s \in stops : s.id = id /\ s.k = k}) :
          Event(childExit(PM, id, k, code, first, spawn))
    /\ UNCHANGED storeVars

ChildError(id, k) ==
    /\ host # "exited"
    /\ inst[id][k].spawnError = "pending"
    /\ Event(childError(PM, id, k))
    /\ UNCHANGED storeVars

\* A subprocess that outlives the host ends without any handler running.
OrphanExit(id, k) ==
    /\ host = "exited"
    /\ inst[id][k].alive
    /\ Event([PM EXCEPT !.inst[id][k].alive = FALSE])
    /\ UNCHANGED storeVars

StopGraceTimeout(s, spawn) ==
    /\ host # "exited"
    /\ s \in stops
    /\ Event(stopGraceTimeout(PM, s, spawn))
    /\ UNCHANGED storeVars

LimitTimeout(id, k) ==
    /\ host # "exited"
    /\ inst[id][k].limitTimer = "armed"
    /\ Event(limitTimeout(PM, id, k))
    /\ UNCHANGED storeVars

LimitFollowup(id, k) ==
    /\ host # "exited"
    /\ inst[id][k].limitTimer = "followup"
    /\ Event(limitFollowup(PM, id, k))
    /\ UNCHANGED storeVars

RestartTimeout(id, k, spawn) ==
    /\ host # "exited"
    /\ inst[id][k].restartTimer = "armed"
    /\ Event(restartTimeout(PM, id, k, spawn))
    /\ UNCHANGED storeVars

HealthCheck(id) ==
    /\ host # "exited"
    /\ healthChecks[id] = "armed"
    /\ Event(performHealthCheck(PM, id))
    /\ UNCHANGED storeVars

Cleanup ==
    /\ host # "exited"
    /\ cleanupInterval = "armed"
    /\ Event(cleanupLoop(PM, Ids(PM)))
    /\ UNCHANGED storeVars

KillAllServers(event) ==
    /\ host # "exited"
    /\ Returned("killAllServers", "none", killAllServers(PM, event))
    /\ UNCHANGED storeVars

\* --- specifications ---------------------------------------------------------

PMInit(ids, slots) ==
    /\ processes = [id \in ids |-> 0]
    /\ inst = [id \in ids |-> [k \in slots |-> NoInstance]]
    /\ healthChecks = [id \in ids |-> "none"]
    /\ cleanupInterval = "none"
    /\ initialized = FALSE
    /\ stops = {}
    /\ host = "up"
    /\ lateSpawn = FALSE
    /\ leakedSandboxes = FALSE
    /\ last = NoReturn
    /\ sandboxCall = NoSandboxCall

StoreInit ==
    /\ configFile \in {Absent, Corrupt}
    /\ pending = {}
    /\ storeLast = NoCall
    /\ safeModeCalled = FALSE

Plugins == {PluginNames[i] : i \in 1..NumPlugins}
CapPlugins == {PluginNames[i] : i \in 1..NumCapPlugins}

\* The lifecycle of the plugins of one manager.
Init ==
    /\ PMInit(Plugins, 1..MaxInstances)
    /\ configFile = Absent
    /\ pending = {}
    /\ storeLast = NoCall
    /\ safeModeCalled = FALSE

StartCall == \E id \in DOMAIN processes, o \in SpawnOutcomes : Start(id, "none", o)
StopCall == \E id \in DOMAIN processes : Stop(id)
RestartCall == \E id \in DOMAIN processes, o \in SpawnOutcomes : Restart(id, o)
KillCall == \E id \in DOMAIN processes : Kill(id)
ExitEvent ==
    \E id \in DOMAIN processes : \E k \in DOMAIN inst[id], code \in {"zero", "nonzero", "signal"},
       o \in SpawnOutcomes : ChildExit(id, k, code, o)
OrphanExitEvent == \E id \in DOMAIN processes : \E k \in DOMAIN inst[id] : OrphanExit(id, k)
GraceTimer == \E s \in stops, o \in SpawnOutcomes : StopGraceTimeout(s, o)
LimitTimer == \E id \in DOMAIN processes : \E k \in DOMAIN inst[id] : LimitTimeout(id, k)
LimitFollowupTimer == \E id \in DOMAIN processes : \E k \in DOMAIN inst[id] : LimitFollowup(id, k)
RestartTimer ==
    \E id \in DOMAIN processes : \E k \in DOMAIN inst[id], o \in SpawnOutcomes : RestartTimeout(id, k, o)
HealthTimer == \E id \in DOMAIN processes : HealthCheck(id)
CleanupTimer == Cleanup
Shutdown == \E e \in {"exit", "SIGINT"} : KillAllServers(e)

Next ==
    \/ StartCall
    \/ StopCall
    \/ RestartCall
    \/ KillCall
    \/ ExitEvent
    \/ GraceTimer
    \/ LimitTimer
    \/ LimitFollowupTimer
    \/ RestartTimer
    \/ HealthTimer
    \/ CleanupTimer

Spec == Init /\ [][Next]_vars

\* Starts with a tier given by the caller, and restarts of those plugins.
StartTiers == {"none", PERMISSION_TIERS.LOW}

TierStartCall ==
    \E id \in DOMAIN processes, tier \in StartTiers, o \in SpawnOutcomes : Start(id, tier, o)

RestartNext ==
    \/ TierStartCall
    \/ StopCall
    \/ RestartCall
    \/ KillCall
    \/ ExitEvent
    \/ GraceTimer
    \/ RestartTimer

RestartSpec == Init /\ [][RestartNext]_vars

\* A plugin that is started and then left to the manager: its exits and the
\* auto-restart and grace timers.
CrashNext ==
    \/ StartCall
    \/ ExitEvent
    \/ RestartTimer
    \/ GraceTimer

CrashSpec == Init /\ [][CrashNext]_vars

\* Starts whose spawn can fail in either way, with the periodic cleanup.
SpawnStartCall ==
    \E id \in DOMAIN processes, o \in SpawnOutcomes \cup {"error"} : Start(id, "none", o)
ErrorEvent == \E id \in DOMAIN processes : \E k \in DOMAIN inst[id] : ChildError(id, k)

SpawnNext ==
    \/ SpawnStartCall
    \/ ErrorEvent
    \/ ExitEvent
    \/ StopCall
    \/ GraceTimer
    \/ HealthTimer
    \/ CleanupTimer

SpawnSpec == Init /\ [][SpawnNext]_vars

\* The pure functions of utils/sandbox.js, each applied once to arguments
\* drawn by SandboxInit.
SandboxInit ==
    /\ processes = [id \in Plugins |-> 0]
    /\ inst = [id \in Plugins |-> [k \in 1..MaxInstances |-> NoInstance]]
    /\ healthChecks = [id \in Plugins |-> "none"]
    /\ cleanupInterval = "none"
    /\ initialized = FALSE
    /\ stops = {}
    /\ host = "up"
    /\ lateSpawn = FALSE
    /\ leakedSandboxes = FALSE
    /\ last = NoReturn
    /\ configFile = Absent
    /\ pending = {}
    /\ storeLast = NoCall
    /\ safeModeCalled = FALSE
    /\ \/ sandboxCall \in [fn : {"validateFileAccess"}, tier : Tiers, cwd : WorkingDirs,
                            filePath : FilePaths, operation : Operations,
                            done : {FALSE}, res : {Allowed}]
       \/ sandboxCall \in [fn : {"validateNetworkAccess"}, tier : Tiers, cwd : {homedir},
                            domain : Domains, port : Ports,
                            done : {FALSE}, res : {Allowed}]
       \/ sandboxCall \in [fn : {"createSandboxedEnv"}, tier : Tiers, cwd : {homedir},
                            originalEnv : HostEnvs,
                            done : {FALSE}, res : {[name \in {} |-> "v"]}]
       \/ sandboxCall \in [fn : {"getDefaultPermissionTier"}, metadata : Metadata,
                            done : {FALSE}, res : {"undefined"}]
       \/ sandboxCall \in [fn : {"createSandbox"}, cwd : {homedir},
                            tiers : TierLists(MaxSandboxes), created : {<<>>}]

SandboxReturns(res) ==
    /\ ~sandboxCall.done
    /\ sandboxCall' = [sandboxCall EXCEPT !.done = TRUE, !.res = res]
    /\ UNCHANGED <<storeVars, processes, inst, healthChecks, cleanupInterval, initialized,
                   stops, host, lateSpawn, leakedSandboxes, last>>

ValidateFileAccess ==
    /\ sandboxCall.fn = "validateFileAccess"
    /\ SandboxReturns(validateFileAccess(createSandbox(sandboxCall.cwd, sandboxCall.tier),
                                         sandboxCall.filePath, sandboxCall.operation))

ValidateNetworkAccess ==
    /\ sandboxCall.fn = "validateNetworkAccess"
    /\ SandboxReturns(validateNetworkAccess(createSandbox(sandboxCall.cwd, sandboxCall.tier),
                                            sandboxCall.domain, sandboxCall.port))

CreateSandboxedEnv ==
    /\ sandboxCall.fn = "createSandboxedEnv"
    /\ SandboxReturns(createSandboxedEnv(createSandbox(sandboxCall.cwd, sandboxCall.tier),
                                         sandboxCall.originalEnv))

Classify ==
    /\ sandboxCall.fn = "getDefaultPermissionTier"
    /\ SandboxReturns(classify(sandboxCall.metadata))

\* The next sandbox of the list is created.
CreateSandbox ==
    /\ sandboxCall.fn = "createSandbox"
    /\ Len(sandboxCall.created) < Len(sandboxCall.tiers)
    /\ sandboxCall' = [sandboxCall EXCEPT
            !.created = Append(@, createSandbox(sandboxCall.cwd,
                                                sandboxCall.tiers[Len(@) + 1]))]
    /\ UNCHANGED <<storeVars, processes, inst, healthChecks, cleanupInterval, initialized,
                   stops, host, lateSpawn, leakedSandboxes, last>>

SandboxNext ==
    \/ ValidateFileAccess
    \/ ValidateNetworkAccess
    \/ CreateSandboxedEnv
    \/ Classify
    \/ CreateSandbox

SandboxSpec == SandboxInit /\ [][SandboxNext]_vars

\* The lifecycle with the global shutdown hook.
ShutdownNext ==
    \/ StartCall
    \/ StopCall
    \/ ExitEvent
    \/ OrphanExitEvent
    \/ GraceTimer
    \/ LimitTimer
    \/ LimitFollowupTimer
    \/ RestartTimer
    \/ Shutdown

ShutdownSpec == Init /\ [][ShutdownNext]_vars

\* The manager near its capacity: the first NumBackground plugins have been
\* started and stay up, the others are started, stopped and killed, exit and are restarted
\* by the auto-restart timer.
Background == {PluginNames[i] : i \in 1..NumBackground}

Started(id) ==
    [NoInstance EXCEPT
        !.used = TRUE, !.status = "running",
        !.tier = ManagerDefaultPermissionTier(ConfigPermissions(id)),
        !.inRegistry = TRUE, !.alive = TRUE, !.limitTimer = "armed"]

CapInit ==
    /\ processes = [id \in CapPlugins |-> IF id \in Background THEN 1 ELSE 0]
    /\ inst = [id \in CapPlugins |-> [k \in 1..1 |->
                    IF id \in Background THEN Started(id) ELSE NoInstance]]
    /\ healthChecks = [id \in CapPlugins |-> IF id \in Background THEN "armed" ELSE "none"]
    /\ cleanupInterval = "armed"
    /\ initialized = TRUE
    /\ stops = {}
    /\ host = "up"
    /\ lateSpawn = FALSE
    /\ leakedSandboxes = FALSE
    /\ last = NoReturn
    /\ sandboxCall = NoSandboxCall
    /\ configFile = Absent
    /\ pending = {}
    /\ storeLast = NoCall
    /\ safeModeCalled = FALSE

Churn == DOMAIN processes \ Background

CapStop == \E id \in Churn : Stop(id)
CapKill == \E id \in Churn : Kill(id)
CapExit ==
    \E id \in Churn, code \in {"zero", "nonzero", "signal"}, o \in SpawnOutcomes :
        ChildExit(id, 1, code, o)
CapRestartTimer == \E id \in Churn, o \in SpawnOutcomes : RestartTimeout(id, 1, o)

CapNext ==
    \/ StartCall
    \/ CapStop
    \/ CapKill
    \/ CapExit
    \/ GraceTimer
    \/ CapRestartTimer

CapSpec == CapInit /\ [][CapNext]_vars

\* The Permission Store used by one caller at a time.
SetSafeMode == pending = {} /\ \E b \in {"true", "false"} : setSafeModeBegin(b)

SetPermissionOverride ==
    /\ pending = {}
    /\ \E id \in StoreIds, t \in Tiers : setPermissionOverrideBegin(id, t)

RequestPermissionEscalation ==
    /\ pending = {}
    /\ \E id \in StoreIds, t \in Tiers, tty \in BOOLEAN, answer \in {"yes", "no"} :
          requestPermissionEscalation(id, t, tty, answer)

IsSafeModeEnabled == pending = {} /\ isSafeModeEnabledCall

GetEffectivePermissionTier ==
    /\ pending = {}
    /\ \E id \in StoreIds, d \in Tiers : getEffectivePermissionTierCall(id, d)

ValidateInstallationPermissions ==
    /\ pending = {}
    /\ \E b \in Batches : validateInstallationPermissionsCall(b)

WriteJson == writeJson

StoreNext ==
    /\ \/ SetSafeMode
       \/ SetPermissionOverride
       \/ RequestPermissionEscalation
       \/ WriteJson
       \/ IsSafeModeEnabled
       \/ GetEffectivePermissionTier
       \/ ValidateInstallationPermissions
    /\ UNCHANGED pmVars

StoreSpecInit == StoreInit /\ PMInit(Plugins, 1..MaxInstances)

StoreSpec == StoreSpecInit /\ [][StoreNext]_vars

\* Writers whose read and write steps interleave: a caller that does not
\* await one call before making the next. At most MaxWriters calls are
\* between their readJson and their writeJson.
MaxWriters == 2

ConcurrentSetSafeMode ==
    /\ Cardinality(pending) < MaxWriters
    /\ \E b \in {"true", "false"} : setSafeModeBegin(b)

ConcurrentSetPermissionOverride ==
    /\ Cardinality(pending) < MaxWriters
    /\ \E id \in {"filesystem", "memory"},
          t \in {PERMISSION_TIERS.LOW, PERMISSION_TIERS.HIGH} :
          setPermissionOverrideBegin(id, t)

ConcurrentNext ==
    /\ \/ ConcurrentSetSafeMode
       \/ ConcurrentSetPermissionOverride
       \/ WriteJson
    /\ UNCHANGED pmVars

ConcurrentSpec == StoreSpecInit /\ [][ConcurrentNext]_vars

\* ---------------------------------------------------------------------------
\* Properties of the Process Manager
\* ---------------------------------------------------------------------------

Tracked(id, k) == processes[id] = k /\ inst[id][k].used

\* The plugin has a ProcessInfo in the processes map whose status is running.
StatusRunning(id) == processes[id] # 0 /\ inst[id][processes[id]].status = "running"

NumStatusRunning == Cardinality({id \in DOMAIN processes : StatusRunning(id)})

\* C1: a plugin is restarted automatically at most 3 times; once 3 automatic
\* restarts have happened, a further non-zero exit of the subprocess (one no
\* signal of the manager caused) schedules no restart. Stated for plugins
\* whose ProcessInfo no start call has replaced (no sandbox was leaked).
C1_AtMostThreeAutoRestarts ==
    \A id \in DOMAIN processes : \A k \in DOMAIN inst[id] :
        (/\ Tracked(id, k)
         /\ ~leakedSandboxes
         /\ inst[id][k].autoRestarts >= maxAutoRestarts
         /\ inst[id][k].exitCode = "nonzero"
         /\ ~inst[id][k].sigterm /\ ~inst[id][k].sigkill)
        => /\ inst[id][k].autoRestarts = maxAutoRestarts
           /\ inst[id][k].restartTimer # "armed"

\* C2: a start call for a plugin whose ProcessInfo is tracked with status
\* running is rejected as already running, spawns no subprocess and leaves
\* the ProcessInfo, sandbox and timers of the manager unchanged.
C2_StartWhileRunningRejected ==
    [][\A id \in DOMAIN processes :
          (StatusRunning(id) /\ last'.op = "start" /\ last'.id = id) =>
              /\ last'.res = "already running"
              /\ UNCHANGED <<processes, inst, healthChecks, cleanupInterval,
                             initialized, stops, leakedSandboxes>>]_vars

\* A start was rejected while the running subprocess was alive.
C2_Witness ==
    /\ last.op = "start"
    /\ last.res = "already running"
    /\ StatusRunning(last.id)
    /\ inst[last.id][processes[last.id]].alive

\* C3: the number of ProcessInfo records with status running never exceeds
\* the cap, and a start made when it equals the cap fails with the capacity
\* error, spawns nothing and adds no tracking state.
C3_CapNeverExceeded ==
    [][/\ NumStatusRunning' <= maxConcurrentProcesses
       /\ \A id \in DOMAIN processes :
            (/\ NumStatusRunning = maxConcurrentProcesses
             /\ ~StatusRunning(id)
             /\ last'.op = "start" /\ last'.id = id) =>
                /\ last'.res = "maximum reached"
                /\ UNCHANGED <<processes, inst, healthChecks, stops>>]_vars

\* A start failed at the cap and left its plugin untracked.
C3_Witness ==
    /\ last.op = "start"
    /\ last.res = "maximum reached"
    /\ NumStatusRunning = maxConcurrentProcesses
    /\ processes[last.id] = 0

\* C4: when stop has returned success for an instance, its subprocess is no
\* longer alive.
C4_StoppedMeansNotAlive ==
    \A id \in DOMAIN processes : \A k \in DOMAIN inst[id] :
        inst[id][k].stopReturned => ~inst[id][k].alive

\* C5: once the execution-time limit and its 5-second follow-up have elapsed
\* for a subprocess, it has exited or has been sent the forced kill.
C5_LimitForcesKill ==
    \A id \in DOMAIN processes : \A k \in DOMAIN inst[id] :
        (inst[id][k].limitTimer = "done" /\ inst[id][k].alive) => inst[id][k].sigkill

\* C6: after the global shutdown hook has run, every tracked subprocess that
\* is alive has been sent the forced kill, no timer of the manager is armed
\* and no subprocess has been spawned since.
C6_ShutdownLeavesNothing ==
    host # "up" =>
        /\ cleanupInterval # "armed"
        /\ ~lateSpawn
        /\ stops = {}
        /\ \A id \in DOMAIN processes :
              /\ healthChecks[id] # "armed"
              /\ \A k \in DOMAIN inst[id] :
                    /\ inst[id][k].limitTimer \notin {"armed", "followup"}
                    /\ inst[id][k].restartTimer # "armed"
                    /\ (Tracked(id, k) /\ inst[id][k].alive) => inst[id][k].sigkill

\* ---------------------------------------------------------------------------
\* Properties of the Permission Store
\* ---------------------------------------------------------------------------

\* C7: isSafeModeEnabled() returns true in every state in which setSafeMode
\* has never been called, whatever other store operations have run.
C7_SafeModeDefaultsToTrue ==
    (storeLast.op = "isSafeModeEnabled" /\ ~safeModeCalled) => storeLast.res = "true"

\* C8: whenever an override is stored for a plugin id, getEffectivePermissionTier
\* returns the override's tier, for every default tier and both safe-mode values.
C8_OverrideWins ==
    \A id \in StoreIds, d \in Tiers :
        getPermissionOverrides(configFile)[id] # "none" =>
            getEffectivePermissionTier(configFile, id, d) = getPermissionOverrides(configFile)[id]

\* A call made with safe mode enabled for the plugin safe mode blocks, with a
\* default tier that differs from the stored override, returned the override.
C8_Witness ==
    /\ storeLast.op = "getEffectivePermissionTier"
    /\ storeLast.id = "filesystem"
    /\ isSafeModeEnabled(configFile)
    /\ getPermissionOverrides(configFile)["filesystem"] = "high"
    /\ storeLast.tier = "medium"
    /\ storeLast.res = "high"

\* C9: with no override stored, getEffectivePermissionTier returns low when
\* safe mode is enabled and the default tier passed in is high, and returns
\* the default tier when safe mode is disabled (stated for the plugins of the
\* registry).
C9_SafeModeCapsHighDefault ==
    (/\ storeLast.op = "getEffectivePermissionTier"
     /\ Resolvable(storeLast.id)
     /\ getPermissionOverrides(configFile)[storeLast.id] = "none")
    => /\ (isSafeModeEnabled(configFile) /\ storeLast.tier = PERMISSION_TIERS.HIGH)
            => storeLast.res = PERMISSION_TIERS.LOW
       /\ ~isSafeModeEnabled(configFile) => storeLast.res = storeLast.tier

\* C10: validateInstallationPermissions returns one result per requested id in
\* input order; a resolvable plugin is reported blocked (allowed false, with
\* requiresEscalation and a reason) exactly when safe mode is enabled and the
\* Tier Classifier puts it in the high tier, and allowed otherwise.
C10_GateResults ==
    storeLast.op = "validateInstallationPermissions" =>
        /\ storeLast.res = "ok"
        /\ Len(storeLast.results) = Len(storeLast.batch)
        /\ \A i \in 1..Len(storeLast.batch) :
              LET r == storeLast.results[i]
                  blocked == /\ isSafeModeEnabled(configFile)
                             /\ getDefaultPermissionTier(getServerConfig(storeLast.batch[i]))
                                    = PERMISSION_TIERS.HIGH
              IN  /\ r.serverId = storeLast.batch[i]
                  /\ Resolvable(storeLast.batch[i]) =>
                        /\ r.allowed = ~blocked
                        /\ blocked => (r.requiresEscalation /\ r.reason # "none")

\* C11: with safe mode enabled, a plugin the Tier Classifier puts in the high
\* tier is reported allowed by validateInstallationPermissions once a
\* permission override is stored for it.
C11_OverrideLiftsGateBlock ==
    (storeLast.op = "validateInstallationPermissions" /\ storeLast.res = "ok") =>
        \A i \in 1..Len(storeLast.batch) :
            (/\ isSafeModeEnabled(configFile)
             /\ getDefaultPermissionTier(getServerConfig(storeLast.batch[i]))
                    = PERMISSION_TIERS.HIGH
             /\ getPermissionOverrides(configFile)[storeLast.batch[i]] # "none")
            => storeLast.results[i].allowed

\* C12: for a batch with an id that is not in the registry the call does not
\* fail: it returns one result per id, and the result of every such id has
\* allowed false and the reason 'configuration not found'.
C12_UnresolvableIdReported ==
    (/\ storeLast.op = "validateInstallationPermissions"
     /\ \E i \in 1..Len(storeLast.batch) : ~Resolvable(storeLast.batch[i]))
    => /\ storeLast.res = "ok"
       /\ Len(storeLast.results) = Len(storeLast.batch)
       /\ \A i \in 1..Len(storeLast.batch) :
             ~Resolvable(storeLast.batch[i]) =>
                /\ ~storeLast.results[i].allowed
                /\ storeLast.results[i].reason = "Server configuration not found"

\* C13: requestPermissionEscalation fails closed. A call in a non-interactive
\* or test environment, and a call for a registered plugin whose prompt is
\* answered with anything but yes, returns granted: false and leaves the
\* Permission Store (the overrides and the safe-mode flag) as it was.
C13_EscalationFailsClosed ==
    [][\A id \in StoreIds, t \in Tiers, tty \in BOOLEAN, answer \in {"yes", "no"} :
          (/\ requestPermissionEscalation(id, t, tty, answer)
           /\ (~tty \/ (Resolvable(id) /\ answer # "yes")))
          => /\ storeLast' = Call("requestPermissionEscalation", id, t, "denied")
             /\ configFile' = configFile
             /\ pending' = pending]_vars

C13_Witness ==
    /\ storeLast.op = "requestPermissionEscalation"
    /\ storeLast.res = "denied"
    /\ Resolvable(storeLast.id)
    /\ configFile.kind = "doc"
    /\ \E id \in StoreIds : getPermissionOverrides(configFile)[id] # "none"

\* C14: when an escalation for (pluginId, requestedTier) is granted, the
\* override of pluginId becomes requestedTier, the call returns granted, the
\* override of every other plugin is what it was, and from then on
\* getEffectiveTier(pluginId, d) is requestedTier for every default tier d.
C14_GrantStoresOverride ==
    [][\A w \in pending :
          (/\ w.op = "requestPermissionEscalation"
           /\ pending' = pending \ {w}
           /\ storeLast'.op = w.op /\ storeLast'.id = w.id /\ storeLast'.tier = w.tier)
          => /\ storeLast'.res = "granted"
             /\ getPermissionOverrides(configFile')[w.id] = w.tier
             /\ \A other \in StoreIds \ {w.id} :
                   getPermissionOverrides(configFile')[other]
                      = getPermissionOverrides(configFile)[other]
             /\ \A d \in Tiers :
                   getEffectivePermissionTier(configFile', w.id, d) = w.tier]_vars

C14_Witness ==
    /\ storeLast.op = "requestPermissionEscalation"
    /\ storeLast.res = "granted"
    /\ storeLast.id = "filesystem"
    /\ storeLast.tier = PERMISSION_TIERS.HIGH
    /\ isSafeModeEnabled(configFile)
    /\ getPermissionOverrides(configFile)["memory"] # "none"

\* C15: a plugin started without an explicit tier gets a sandbox whose tier is
\* getEffectiveTier(pluginId, classify(pluginConfig)), evaluated against the
\* Permission Store as it is when start is called.
C15_StartUsesEffectiveTier ==
    \A id \in DOMAIN processes : \A k \in DOMAIN inst[id] :
        (/\ last.op = "start" /\ last.id = id /\ last.res = "ok"
         /\ Tracked(id, k)
         /\ Resolvable(id))
        => inst[id][k].tier =
              getEffectivePermissionTier(configFile, id,
                                         getDefaultPermissionTier(getServerConfig(id)))

\* C16: once restart(id) has succeeded the restart count getStatus(id)
\* reports is one more than before, and the reported count is the number of
\* restarts, manual or automatic, the plugin has had since its first start.
C16_RestartCountCounts ==
    \A id \in DOMAIN processes : \A k \in DOMAIN inst[id] :
        Tracked(id, k) =>
            /\ (last.op = "restart" /\ last.id = id /\ last.res = "ok")
                  => inst[id][k].restartCount >= 1
            /\ inst[id][k].restartCount >= inst[id][k].autoRestarts

\* C18: killed is a terminal state. While a killed plugin is tracked its
\* status stays killed and the manager arms no restart for it.
C18_KilledIsTerminal ==
    [][\A id \in DOMAIN processes : \A k \in DOMAIN inst[id] :
          (/\ Tracked(id, k)
           /\ inst[id][k].status = "killed"
           /\ processes'[id] = k)
          => /\ inst'[id][k].status = "killed"
             /\ inst'[id][k].restartTimer # "armed"]_vars

\* C19: after stop(id) has returned success nothing of the stopped instance
\* is tracked (no ProcessInfo, no sandbox in the registry), its health-check
\* interval and its execution-limit timers are cancelled; a stop of an id
\* that is not tracked returns the failure and tracks nothing.
C19_StopLeavesNothing ==
    /\ \A id \in DOMAIN processes : \A k \in DOMAIN inst[id] :
          inst[id][k].stopReturned =>
             /\ processes[id] # k
             /\ ~inst[id][k].inRegistry
             /\ inst[id][k].limitTimer \notin {"armed", "followup"}
    /\ \A id \in DOMAIN processes :
          (last.op = "stop" /\ last.id = id /\ last.res = "success" /\ processes[id] = 0)
             => healthChecks[id] # "armed"

\* C20: a health check neither terminates nor untracks a plugin. It sends no
\* signal and leaves the processes map, the sandbox registry, the intervals
\* and every status as they are; when it finds the subprocess dead it changes
\* nothing at all, otherwise it changes the last-health-check time only.
C20_HealthCheckOnlyObserves ==
    [][\A id \in DOMAIN processes :
          HealthCheck(id) =>
             /\ processes' = processes
             /\ healthChecks' = healthChecks
             /\ cleanupInterval' = cleanupInterval
             /\ stops' = stops
             /\ leakedSandboxes' = leakedSandboxes
             /\ \A j \in DOMAIN inst : \A k \in DOMAIN inst[j] :
                   /\ [inst'[j][k] EXCEPT !.lastHealthCheck = inst[j][k].lastHealthCheck]
                         = inst[j][k]
                   /\ (j # id \/ k # processes[id] \/ inst[j][k].killed
                          \/ inst[j][k].exitCode # "null")
                      => inst'[j][k] = inst[j][k]]_vars

C20_Witness ==
    \E id \in DOMAIN processes : \E k \in DOMAIN inst[id] :
        /\ Tracked(id, k)
        /\ healthChecks[id] = "armed"
        /\ inst[id][k].lastHealthCheck = "set"
        /\ ~inst[id][k].alive
        /\ inst[id][k].exitCode # "null"
        /\ last = NoReturn

\* C17: when the subprocess of a plugin cannot be spawned, start reports the
\* failure, and neither a ProcessInfo nor a sandbox of the failed start stays
\* tracked: getStatus reports not found.
C17_FailedSpawnLeavesNothing ==
    \A id \in DOMAIN processes :
        /\ (last.op = "start" /\ last.id = id /\ last.res = "failed to start")
              => processes[id] = 0
        /\ \A k \in DOMAIN inst[id] :
              inst[id][k].spawnError # "none" =>
                 /\ processes[id] # k
                 /\ ~inst[id][k].inRegistry
                 /\ ~(last.op = "start" /\ last.id = id /\ last.res = "ok")

\* The segments of an absolute, normalized path.
Segments(path) == NormalizeSegments(SplitPath(path, 1, <<>>), 1, <<>>)

\* path is dir itself or lies inside it.
Inside(path, dir) ==
    /\ Len(Segments(dir)) <= Len(Segments(path))
    /\ SubSeq(Segments(path), 1, Len(Segments(dir))) = Segments(dir)

FileCall == sandboxCall.fn = "validateFileAccess" /\ sandboxCall.done

NetworkCall == sandboxCall.fn = "validateNetworkAccess" /\ sandboxCall.done

\* C21: in a low or medium sandbox every path under a blocked prefix is
\* denied for every operation, with a reason and requiresEscalation true,
\* also when the path lies under a readable or writable directory of the tier.
C21_BlockedAlwaysDenied ==
    (/\ FileCall
     /\ sandboxCall.tier \in {PERMISSION_TIERS.LOW, PERMISSION_TIERS.MEDIUM}
     /\ \E blockedPath \in Range(FILE_PERMISSIONS(sandboxCall.cwd)[sandboxCall.tier].blockedPaths) :
           Inside(resolve(sandboxCall.cwd, sandboxCall.filePath), blockedPath))
    => /\ ~sandboxCall.res.allowed
       /\ sandboxCall.res.reason # "undefined"
       /\ sandboxCall.res.requiresEscalation = "true"

C21_Witness ==
    /\ FileCall
    /\ sandboxCall.tier = PERMISSION_TIERS.MEDIUM
    /\ sandboxCall.cwd = <<"/", "o", "p", "t", "/", "a", "p", "p">>
    /\ sandboxCall.filePath = <<"/", "o", "p", "t", "/", "a", "p", "p", "/", "d", "a", "t", "a">>
    /\ sandboxCall.operation = "read"
    /\ ~sandboxCall.res.allowed

\* C22: in a low sandbox a write is denied for every path, with
\* requiresEscalation true.
C22_LowNeverWrites ==
    (FileCall /\ sandboxCall.tier = PERMISSION_TIERS.LOW /\ sandboxCall.operation = "write")
    => /\ ~sandboxCall.res.allowed
       /\ sandboxCall.res.requiresEscalation = "true"

C22_Witness ==
    /\ FileCall
    /\ sandboxCall.tier = PERMISSION_TIERS.LOW
    /\ sandboxCall.operation = "write"
    /\ sandboxCall.filePath = <<"/", "h", "o", "m", "e", "/", "u", "/", "D", "o", "c", "u", "m", "e", "n", "t", "s", "/", "a", ".", "t", "x", "t">>
    /\ sandboxCall.res = Denied("not permitted", TRUE)

\* C23: in a low sandbox network access is denied for every domain and every
\* port, with requiresEscalation true.
C23_LowHasNoNetwork ==
    (NetworkCall /\ sandboxCall.tier = PERMISSION_TIERS.LOW)
    => /\ ~sandboxCall.res.allowed
       /\ sandboxCall.res.requiresEscalation = "true"

C23_Witness ==
    /\ NetworkCall
    /\ sandboxCall.tier = PERMISSION_TIERS.LOW
    /\ sandboxCall.domain = <<"a", "p", "i", ".", "g", "i", "t", "h", "u", "b", ".", "c", "o", "m">>
    /\ sandboxCall.port = "443"
    /\ ~sandboxCall.res.allowed

\* The domain allow-list of the medium tier as the policy states it: exact
\* names, and *.suffix entries that stand for suffix and its subdomains.
MatchesEntry(domain, entry) ==
    IF Len(entry) >= 2 /\ SubSeq(entry, 1, 2) = <<"*", ".">>
    THEN \/ domain = SubSeq(entry, 3, Len(entry))
         \/ /\ Len(domain) > Len(entry) - 1
            /\ SubSeq(domain, Len(domain) - Len(entry) + 2, Len(domain))
                  = SubSeq(entry, 2, Len(entry))
    ELSE domain = entry

\* C24: in a medium sandbox network access is allowed exactly when the
\* domain matches an entry of the allow-list (exact name or *.suffix) and the
\* port is 80, 443 or 8080 (443 when none is given); every denial has
\* requiresEscalation true.
C24_MediumNetworkAllowList ==
    (NetworkCall /\ sandboxCall.tier = PERMISSION_TIERS.MEDIUM)
    => /\ sandboxCall.res.allowed <=>
             /\ \E entry \in Range(NETWORK_PERMISSIONS.medium.allowedDomains) :
                   MatchesEntry(sandboxCall.domain, entry)
             /\ sandboxCall.port \in {"80", "443", "8080", "undefined"}
       /\ ~sandboxCall.res.allowed => sandboxCall.res.requiresEscalation = "true"

\* C25: in a high sandbox validateFileAccess allows every path for every
\* operation and validateNetworkAccess allows every domain and port.
C25_HighAllowsEverything ==
    ((FileCall \/ NetworkCall) /\ sandboxCall.tier = PERMISSION_TIERS.HIGH)
    => sandboxCall.res = Allowed

C25_Witness ==
    /\ FileCall
    /\ sandboxCall.tier = PERMISSION_TIERS.HIGH
    /\ sandboxCall.filePath = <<"/", "e", "t", "c", "/", "p", "a", "s", "s", "w", "d">>
    /\ sandboxCall.operation = "write"
    /\ sandboxCall.res.allowed

EnvCall == sandboxCall.fn = "createSandboxedEnv" /\ sandboxCall.done

\* C26: for every tier and every host environment the environment
\* createSandboxedEnv returns has no variable with a sensitive name (suffix
\* _TOKEN, _KEY, _SECRET, _PASSWORD or prefix SSH_, AWS_, GITHUB_); for the
\* low tier its names are the six minimal names and the two sandbox
\* variables, whatever the host environment holds.
C26_NoSensitiveVariables ==
    EnvCall =>
        /\ \A name \in DOMAIN sandboxCall.res : ~isSensitive(name)
        /\ sandboxCall.tier = PERMISSION_TIERS.LOW
              => DOMAIN sandboxCall.res = MinimalVars \cup SandboxVars

C26_Witness ==
    /\ EnvCall
    /\ sandboxCall.tier = PERMISSION_TIERS.HIGH
    /\ DOMAIN sandboxCall.originalEnv = {<<"A", "P", "I", "_", "T", "O", "K", "E", "N">>, <<"A", "W", "S", "_", "R", "E", "G", "I", "O", "N">>, <<"E", "D", "I", "T", "O", "R">>}
    /\ <<"E", "D", "I", "T", "O", "R">> \in DOMAIN sandboxCall.res
    /\ <<"A", "P", "I", "_", "T", "O", "K", "E", "N">> \notin DOMAIN sandboxCall.res

\* Some text field of the metadata holds one of the keywords, in any case.
HasKeyword(metadata, keywords) ==
    \E field \in {metadata.name, metadata.description, metadata.package} :
        /\ field.defined
        /\ \E keyword \in keywords :
              Includes(toLowerCase(field.text), Characters(keyword))

\* C27: classify returns a tier for all metadata, by a fixed precedence:
\* hint 'high', then hint 'medium', then a high-privilege keyword in name,
\* description or package (in any case), then a medium-privilege keyword,
\* else low (also when the fields are empty or missing).
C27_ClassifierPrecedence ==
    (sandboxCall.fn = "getDefaultPermissionTier" /\ sandboxCall.done) =>
        LET metadata == sandboxCall.metadata
            hints    == IF metadata.permissions.defined
                        THEN metadata.permissions.list ELSE {}
        IN  sandboxCall.res =
               IF "high" \in hints THEN PERMISSION_TIERS.HIGH
               ELSE IF "medium" \in hints THEN PERMISSION_TIERS.MEDIUM
               ELSE IF HasKeyword(metadata, highPrivilegeIndicators)
                    THEN PERMISSION_TIERS.HIGH
               ELSE IF HasKeyword(metadata, mediumPrivilegeIndicators)
                    THEN PERMISSION_TIERS.MEDIUM
               ELSE PERMISSION_TIERS.LOW

C27_Witness ==
    /\ sandboxCall.fn = "getDefaultPermissionTier"
    /\ sandboxCall.done
    /\ sandboxCall.metadata.permissions = [defined |-> TRUE, list |-> {"medium"}]
    /\ sandboxCall.metadata.name = [defined |-> TRUE, text |-> <<"S", "U", "D", "O", " ", "h", "e", "l", "p", "e", "r">>]
    /\ ~sandboxCall.metadata.package.defined
    /\ sandboxCall.res = PERMISSION_TIERS.MEDIUM

TierOrder(tier) ==
    CASE tier = PERMISSION_TIERS.LOW -> 1
      [] tier = PERMISSION_TIERS.MEDIUM -> 2
      [] tier = PERMISSION_TIERS.HIGH -> 3

\* C30: the resource limits of a sandbox strictly increase with its tier:
\* of two sandboxes the one of the lower tier has the smaller memory, CPU
\* percent, execution time and concurrent-process limit.
C30_LimitsIncreaseWithTier ==
    sandboxCall.fn = "createSandbox" =>
        \A i, j \in 1..Len(sandboxCall.created) :
            LET a == sandboxCall.created[i]
                b == sandboxCall.created[j]
            IN  TierOrder(a.permissionTier) < TierOrder(b.permissionTier) =>
                   /\ a.resourceLimits.maxMemory < b.resourceLimits.maxMemory
                   /\ a.resourceLimits.maxCpuPercent < b.resourceLimits.maxCpuPercent
                   /\ a.resourceLimits.maxExecutionTime < b.resourceLimits.maxExecutionTime
                   /\ a.resourceLimits.maxConcurrentProcesses
                         < b.resourceLimits.maxConcurrentProcesses

C30_Witness ==
    /\ sandboxCall.fn = "createSandbox"
    /\ {sandboxCall.created[i].permissionTier : i \in 1..Len(sandboxCall.created)} = Tiers

\* The step completes the write of w.
Completes(w) == w \in pending /\ pending' = pending \ {w} /\ storeLast'.op = w.op

\* C28: when setSafeMode(b) completes, isSafeModeEnabled() returns b and the
\* stored overrides are what they were; from then on no store operation
\* other than a setSafeMode changes what isSafeModeEnabled() returns.
C28_SafeModePersists ==
    [][/\ \A w \in pending :
            (w.op = "setSafeMode" /\ Completes(w)) =>
                /\ configFile'.kind = "doc"
                /\ configFile'.safeMode = w.tier
                /\ configFile'.permissionOverrides = getPermissionOverrides(configFile)
       /\ (/\ configFile.kind = "doc"
           /\ configFile.safeMode # "unset"
           /\ ~\E w \in pending : w.op = "setSafeMode" /\ Completes(w))
          => /\ configFile'.kind = "doc"
             /\ configFile'.safeMode = configFile.safeMode
       /\ (storeLast'.op = "isSafeModeEnabled" /\ configFile'.kind = "doc"
              /\ configFile'.safeMode # "unset")
          => storeLast'.res = configFile'.safeMode]_vars

C28_Witness ==
    /\ storeLast.op = "isSafeModeEnabled"
    /\ storeLast.res = "false"
    /\ configFile.kind = "doc"
    /\ configFile.safeMode = "false"
    /\ \E id \in StoreIds : configFile.permissionOverrides[id] # "none"

\* C29: setPermissionOverride(id, tier) leaves the override of id equal to
\* tier, also when id already had that tier (the call made twice), and
\* changes the override of no other plugin.
C29_OverrideIdempotent ==
    [][\A w \in pending :
          (w.op = "setPermissionOverride" /\ Completes(w)) =>
              /\ getPermissionOverrides(configFile')[w.id] = w.tier
              /\ \A other \in StoreIds \ {w.id} :
                    getPermissionOverrides(configFile')[other]
                       = getPermissionOverrides(configFile)[other]]_vars

C29_Witness ==
    /\ storeLast.op = "setPermissionOverride"
    /\ storeLast.res = "ok"
    /\ \E w \in pending :
          /\ w.op = "setPermissionOverride"
          /\ w.id = storeLast.id /\ w.tier = storeLast.tier
          /\ getPermissionOverrides(configFile)[w.id] = w.tier
    /\ \E other \in StoreIds \ {storeLast.id} :
          getPermissionOverrides(configFile)[other] # "none"

\* C31: a step arms the auto-restart timer of an instance only when its
\* subprocess exits while the manager was neither stopping it (stop, restart,
\* cleanup) nor had killed it (kill, shutdown); and when the timer of an
\* instance fires while a later instance of the same plugin id is tracked,
\* that later instance is left as it is.
C31_AutoRestartOnlyForUnexpectedExit ==
    [][\A id \in DOMAIN processes : \A k \in DOMAIN inst[id] :
          /\ (/\ inst[id][k].used
               /\ inst[id][k].restartTimer # "armed"
               /\ inst'[id][k].restartTimer = "armed")
              => /\ inst[id][k].alive
                 /\ inst[id][k].status \notin {"stopping", "killed"}
          /\ (/\ inst[id][k].restartTimer = "armed"
               /\ inst'[id][k].restartTimer # "armed"
               /\ processes[id] \notin {0, k})
              => /\ processes'[id] = processes[id]
                 /\ inst'[id][processes[id]] = inst[id][processes[id]]]_vars

\* C32: sandboxes and ProcessInfo records correspond one to one: an instance
\* has its sandbox in the registry exactly while its ProcessInfo is in the
\* processes map, and no sandbox of a dropped instance was left behind.
C32_SandboxesMatchProcesses ==
    /\ ~leakedSandboxes
    /\ \A id \in DOMAIN processes : \A k \in DOMAIN inst[id] :
          inst[id][k].inRegistry <=> Tracked(id, k)

\* C33: writes to the store are last-write-wins per field. The write step of
\* a call leaves the field it sets with the value of that call and every
\* other field (safeMode, the override of every other plugin id) with the
\* value the store held just before, so no completed write to another field
\* is lost, however the read and write steps of the calls interleave.
C33_LastWriteWinsPerField ==
    [][\A w \in pending \ pending' :
          LET before == ReadForUpdate(configFile)
          IN  IF w.op = "setSafeMode"
              THEN /\ configFile'.safeMode = w.tier
                   /\ configFile'.permissionOverrides = before.permissionOverrides
              ELSE /\ configFile'.permissionOverrides[w.id] = w.tier
                   /\ configFile'.safeMode = before.safeMode
                   /\ \A id \in StoreIds \ {w.id} :
                         configFile'.permissionOverrides[id]
                            = before.permissionOverrides[id]]_vars

\* C34: restart(id) is ordered. While a restart waits for the stop of a
\* tracked instance the health-check interval is cancelled and the tier it
\* will start with is that instance's; the step in which a restart spawns
\* the new subprocess leaves the old instance without ProcessInfo and
\* without sandbox and gives the new instance the old tier (the
\* configuration is the plugin's own); a restart of an id that is not
\* tracked reports failure and changes nothing.
C34_RestartIsOrdered ==
    /\ [](\A s \in stops :
            (s.then # "none" /\ Tracked(s.id, s.k))
               => /\ s.tier = inst[s.id][s.k].tier
                  /\ inst[s.id][s.k].inRegistry
                  /\ healthChecks[s.id] # "armed")
    /\ [][\A id \in DOMAIN processes :
            /\ \A j \in DOMAIN inst[id] :
                  (~inst[id][j].used /\ inst'[id][j].used /\ last'.op # "start")
                     => LET waited == {s \in stops \ stops' : s.id = id /\ s.then # "none"}
                        IN  /\ processes'[id] = j
                            /\ IF waited = {}
                               THEN /\ processes[id] \notin {0, j}
                                    /\ ~inst'[id][processes[id]].inRegistry
                                    /\ inst'[id][j].tier = inst[id][processes[id]].tier
                               ELSE \A s \in waited :
                                       /\ s.k # j
                                       /\ ~inst'[id][s.k].inRegistry
                                       /\ inst'[id][j].tier = s.tier
            /\ (processes[id] = 0 /\ last'.op = "restart" /\ last'.id = id)
                  => /\ last'.res = "not found"
                     /\ inst' = inst
                     /\ processes' = processes
                     /\ healthChecks' = healthChecks]_vars

\* A restart has returned with the plugin running again in a tier other than
\* the manager's default for its configuration.
C34_Witness ==
    /\ last.op = "restart"
    /\ last.res = "ok"
    /\ processes[last.id] # 0
    /\ inst[last.id][processes[last.id]].tier
          # ManagerDefaultPermissionTier(ConfigPermissions(last.id))

\* C35: at most 10 subprocesses spawned by the manager are alive at the same
\* time, counting those whose ProcessInfo is stopping or killed and those
\* that have not yet exited.
C35_AtMostTenAlive ==
    Cardinality({p \in (DOMAIN processes) \X (1..MaxInstances) :
                    p[2] \in DOMAIN inst[p[1]] /\ inst[p[1]][p[2]].alive})
        <= maxConcurrentProcesses

\* C36: at most one subprocess spawned by the manager is alive per plugin
\* id, whatever the interleaving of start, stop, restart, kill, cleanup and
\* auto-restart.
C36_OneAlivePerPlugin ==
    \A id \in DOMAIN processes : \A j, k \in DOMAIN inst[id] :
        (inst[id][j].alive /\ inst[id][k].alive) => j = k

\* C37: stop(id) removes only the instance it began stopping. When a waiting
\* stop finishes while a later instance of the id is tracked, that instance
\* keeps its ProcessInfo, its sandbox and its health-check interval; and a
\* live subprocess the manager has sent no signal is tracked.
C37_StopRemovesOnlyItsInstance ==
    /\ [](\A id \in DOMAIN processes : \A k \in DOMAIN inst[id] :
            (inst[id][k].alive /\ ~inst[id][k].sigterm /\ ~inst[id][k].sigkill)
               => Tracked(id, k))
    /\ [][\A s \in stops \ stops' :
            (s.then = "none" /\ processes[s.id] \notin {0, s.k})
               => /\ processes'[s.id] = processes[s.id]
                  /\ inst'[s.id][processes[s.id]].inRegistry
                  /\ healthChecks'[s.id] = healthChecks[s.id]]_vars

\* C38: a low or medium sandbox allows a path only if the normalized path is
\* one of the tier's readable directories (writable directories for a write)
\* or lies inside one; a path that only begins with the characters of such a
\* directory's name is denied.
C38_AllowedOnlyInsideAllowedDirs ==
    (/\ FileCall
     /\ sandboxCall.tier \in {PERMISSION_TIERS.LOW, PERMISSION_TIERS.MEDIUM}
     /\ sandboxCall.res.allowed)
    => LET permissions == FILE_PERMISSIONS(sandboxCall.cwd)[sandboxCall.tier]
           allowedPaths == IF sandboxCall.operation = "write"
                           THEN permissions.writablePaths
                           ELSE permissions.readablePaths
       IN  \E allowedPath \in Range(allowedPaths) :
              Inside(resolve(sandboxCall.cwd, sandboxCall.filePath), allowedPath)

\* C39: a medium sandbox allows a domain through a *.suffix entry only if
\* the domain ends with a dot followed by suffix; a domain that is allowed
\* is one of the exact names or such a subdomain.
C39_WildcardAdmitsSubdomainsOnly ==
    (/\ NetworkCall
     /\ sandboxCall.tier = PERMISSION_TIERS.MEDIUM
     /\ sandboxCall.res.allowed)
    => \E entry \in Range(NETWORK_PERMISSIONS.medium.allowedDomains) :
          IF Len(entry) >= 2 /\ SubSeq(entry, 1, 2) = <<"*", ".">>
          THEN /\ Len(sandboxCall.domain) > Len(entry) - 1
               /\ SubSeq(sandboxCall.domain,
                         Len(sandboxCall.domain) - Len(entry) + 2,
                         Len(sandboxCall.domain)) = SubSeq(entry, 2, Len(entry))
          ELSE sandboxCall.domain = entry

====
